---- MODULE Spec2Model ----
(***************************************************************************)
(* xsd2json: the schema object model (schema_model.py) and the mapping of  *)
(* its types and particles to JSON Schema fragments (converter.py).        *)
(*                                                                         *)
(* Python objects are records that carry exactly the attributes their      *)
(* class defines, so hasattr(o, "f") is  "f" \in DOMAIN o.  A dict is a    *)
(* function from its keys, a list is a sequence.  Python's None is the     *)
(* record None where the other values are objects, and the empty string    *)
(* where the other values are strings.                                     *)
(***************************************************************************)
EXTENDS Integers, Sequences, FiniteSets, TLC

VARIABLES
    types,              \* Schema.types: the Type objects, in insertion order
    elements,           \* Schema.elements: the top-level elements
    attr_style,         \* Config.attr_style
    target_namespace,   \* Schema.target_namespace ("" is None)
    json_schemas,       \* the list _transform_to_json returns
    particle,           \* the particle handed to _extract_properties_from_particle
    properties,         \* its first result
    required_elements,  \* its second result
    pc,                 \* where the run stands
    arguments,          \* the arguments of the function under call
    returned,           \* the value it returned
    output_mode,        \* Config.output_mode
    files,              \* the output directory: path -> document written
    output_files,       \* the list _generate_output_files returns
    source,             \* the named types of the input file
    faults,             \* the steps of this run that fail
    llm_optimized,      \* Config.llm_optimized
    success,            \* ConversionResult.success
    errors              \* ConversionResult.errors

\* The state of a call of one function.
call_vars == <<arguments, returned>>

\* The state of a run of Converter.convert besides the schema and its fragments.
run_vars == <<output_mode, files, output_files, source, faults, llm_optimized,
              success, errors>>

vars == <<types, elements, attr_style, target_namespace, json_schemas,
          particle, properties, required_elements, pc, call_vars, run_vars>>

None == [class |-> "NoneType"]

EmptyDict == <<>>

\* No function is under call.
NoCall == arguments = None /\ returned = None

\* Converter.convert has not been entered.
NoRun ==
    /\ output_mode = "single"
    /\ files = EmptyDict
    /\ output_files = <<>>
    /\ source = <<>>
    /\ faults = {}
    /\ llm_optimized = FALSE
    /\ success = FALSE
    /\ errors = <<>>

(***************************************************************************)
(* Bounds of the model.                                                    *)
(***************************************************************************)
\* Particles (elements, wildcards and groups) in the tree under resolution.
MaxParticles == 4
\* Attributes, facets, content models, documentation strings and top-level
\* elements added to one schema, in total.
MaxMembers == 2

\* ElementOccurrence.max holds an int or the string "unbounded"; the string
\* is this number, which no occurrence count takes.
Unbounded == -99

\* Occurrence counts handed to ElementOccurrence lie in -MaxOccurs..MaxOccurs.
MaxOccurs == 5

\* Names handed to _sanitize_filename on their own have up to MaxNameLen
\* characters.
MaxNameLen == 4

\* A schema whose output is generated has up to MaxOutputTypes named types.
MaxOutputTypes == 3

(***************************************************************************)
(* schema_model.py                                                         *)
(***************************************************************************)
Max(a, b) == IF a >= b THEN a ELSE b

\* The constructor storing its arguments as given.
ElementOccurrence_Unclamped(min_occurs, max_occurs) ==
    [min |-> min_occurs, max |-> max_occurs]

ElementOccurrence(min_occurs, max_occurs) ==
    [min |-> Max(0, min_occurs),
     max |-> IF max_occurs = Unbounded THEN Unbounded ELSE Max(1, max_occurs)]

is_optional(occurs) == occurs.min = 0

is_array(occurs) == occurs.max = Unbounded \/ occurs.max > 1

is_required(occurs) == occurs.min >= 1

\* Element(name), then the assignments of XSDParser._convert_element.
Element(name, type, occurs, documentation) ==
    [class |-> "Element", name |-> name, annotation |-> documentation,
     occurs |-> occurs, type |-> type]

\* Sequence(), Choice(), All(): ModelGroup.__init__ gives the name "".
ModelGroup(class) ==
    [class |-> class, name |-> "", annotation |-> <<>>,
     occurs |-> ElementOccurrence(1, 1), particles |-> <<>>]

\* Any(): Particle.__init__ is called with the name "any".
AnyParticle(occurs) ==
    [class |-> "Any", name |-> "any", annotation |-> <<>>, occurs |-> occurs,
     namespace_constraint |-> "##any", process_contents |-> "strict"]

GroupClasses == {"Sequence", "Choice", "All"}

IsGroup(p) == p.class \in GroupClasses

\* ModelGroup.add_particle on the group found by following `path` (a
\* sequence of child positions) down from `root`.
RECURSIVE add_particle(_, _, _)
add_particle(root, path, child) ==
    IF path = <<>>
    THEN [root EXCEPT !.particles = Append(@, child)]
    ELSE [root EXCEPT !.particles[Head(path)] =
                          add_particle(@, Tail(path), child)]

\* Type.__init__ and ComplexType.__init__.  base_type is the name of the base
\* Type object ("" is None), derivation_method the enum's value ("" is None).
ComplexType(name) ==
    [class |-> "ComplexType", name |-> name, annotation |-> <<>>,
     base_type |-> "", derivation_method |-> "",
     particle |-> None, attributes |-> <<>>]

\* Type.__init__ and SimpleType.__init__.
SimpleType(name) ==
    [class |-> "SimpleType", name |-> name, annotation |-> <<>>,
     base_type |-> "", derivation_method |-> "",
     primitive_type |-> "", facets |-> <<>>, enumeration_values |-> <<>>]

\* Attribute(name), then the assignments of XSDParser._convert_attribute.
Attribute(name, use, type) ==
    [class |-> "Attribute", name |-> name, annotation |-> <<>>,
     use |-> use, type |-> type]

\* A facet value is a list or a string: isinstance(value, list) is
\* "list" \in DOMAIN value.
ListValue(items) == [list |-> items]

Scalar(string) == [scalar |-> string]

\* Facet(name, value, fixed)
Facet(name, value) == [name |-> name, value |-> value, fixed |-> FALSE]

\* str(value): a string is itself, a list of strings is its repr.
RECURSIVE ReprItems(_)
ReprItems(items) ==
    IF items = <<>> THEN ""
    ELSE IF Len(items) = 1 THEN "'" \o Head(items) \o "'"
    ELSE "'" \o Head(items) \o "', " \o ReprItems(Tail(items))

Str(value) ==
    IF "list" \in DOMAIN value
    THEN "[" \o ReprItems(value.list) \o "]"
    ELSE value.scalar

\* SimpleType.add_facet
add_facet(simple_type, name, value) ==
    [simple_type EXCEPT
        !.facets = Append(@, Facet(name, value)),
        !.enumeration_values =
            IF name = "enumeration" THEN Append(@, Str(value)) ELSE @]

\* ComplexType.add_attribute
add_attribute(complex_type, attribute) ==
    [complex_type EXCEPT !.attributes = Append(@, attribute)]

\* Annotation.add_documentation; the model's texts carry no outer blanks, so
\* text.strip() is text.
add_documentation(component, text) ==
    IF text # ""
    THEN [component EXCEPT !.annotation = Append(@, text)]
    ELSE component

(***************************************************************************)
(* Strings.  A string is the sequence of its characters, each a string of  *)
(* length one.                                                             *)
(***************************************************************************)
\* The characters of s.
Chars(s) == [i \in 1..Len(s) |-> SubSeq(s, i, i)]

\* str.lower() of one character.
LowerChar(c) ==
    CASE c = "A" -> "a" [] c = "B" -> "b" [] c = "C" -> "c" [] c = "D" -> "d"
    [] c = "E" -> "e" [] c = "F" -> "f" [] c = "G" -> "g" [] c = "H" -> "h"
    [] c = "I" -> "i" [] c = "J" -> "j" [] c = "K" -> "k" [] c = "L" -> "l"
    [] c = "M" -> "m" [] c = "N" -> "n" [] c = "O" -> "o" [] c = "P" -> "p"
    [] c = "Q" -> "q" [] c = "R" -> "r" [] c = "S" -> "s" [] c = "T" -> "t"
    [] c = "U" -> "u" [] c = "V" -> "v" [] c = "W" -> "w" [] c = "X" -> "x"
    [] c = "Y" -> "y" [] c = "Z" -> "z" [] OTHER -> c

\* str.lower()
Lower(cs) == [i \in DOMAIN cs |-> LowerChar(cs[i])]

\* str.lower() of a string, as a string.
RECURSIVE LowerStr(_)
LowerStr(s) == IF s = "" THEN "" ELSE LowerChar(Head(s)) \o LowerStr(Tail(s))

\* t in s
Contains(s, t) ==
    \E i \in 0..(Len(s) - Len(t)) : SubSeq(s, i + 1, i + Len(t)) = t

\* any(t in s for t in tokens)
AnyIn(tokens, s) == \E i \in DOMAIN tokens : Contains(s, tokens[i])

\* " ".join(documentation)
RECURSIVE JoinDocs(_)
JoinDocs(documentation) ==
    IF Len(documentation) = 1
    THEN Head(documentation)
    ELSE Head(documentation) \o " " \o JoinDocs(Tail(documentation))

(***************************************************************************)
(* converter.py: the particle resolver                                     *)
(***************************************************************************)
\* The if/elif chain of _map_xsd_type_to_json_type, in order: the tokens each
\* branch looks for and the JSON type it returns.
TypeBranches ==
    << [tokens |-> <<"string", "normalizedstring", "token", "name", "ncname", "id">>,
        json_type |-> "string"],
       [tokens |-> <<"int", "integer", "long", "short", "byte">>,
        json_type |-> "integer"],
       [tokens |-> <<"decimal", "double", "float">>, json_type |-> "number"],
       [tokens |-> <<"boolean">>, json_type |-> "boolean"],
       [tokens |-> <<"date", "time", "datetime">>, json_type |-> "string"] >>

\* The chain read bottom-up: the last branch that matches.
FirstBranch_LastMatch(lowered, i) ==
    LET taken == {j \in i..Len(TypeBranches) : AnyIn(TypeBranches[j].tokens, lowered)}
    IN  IF taken = {} THEN "string"
        ELSE TypeBranches[CHOOSE j \in taken : \A k \in taken : j >= k].json_type

\* The first branch of the chain that matches, "string" when none does.
FirstBranch(lowered, i) ==
    LET taken == {j \in i..Len(TypeBranches) : AnyIn(TypeBranches[j].tokens, lowered)}
    IN  IF taken = {} THEN "string"
        ELSE TypeBranches[CHOOSE j \in taken : \A k \in taken : j <= k].json_type

MapXsdTypeToJsonType(xsd_type) ==
    IF xsd_type = None
    THEN "string"
    ELSE
      LET type_name == IF "name" \in DOMAIN xsd_type THEN xsd_type.name ELSE ""
          primitive_type == IF "primitive_type" \in DOMAIN xsd_type
                            THEN xsd_type.primitive_type ELSE ""
          type_to_check == IF primitive_type # "" THEN primitive_type ELSE type_name
      IN  FirstBranch(LowerStr(type_to_check), 1)

\* CreateElementSchema without the maxItems of a bounded array.
CreateElementSchema_NoMaxItems(element) ==
    LET typed ==
            IF element.type # None
            THEN "$ref" :> ("#/definitions/" \o element.type.name)
            ELSE "type" :> "string"
    IN  IF is_array(element.occurs)
        THEN ("type" :> "array") @@ ("items" :> typed)
             @@ ("minItems" :> element.occurs.min)
        ELSE typed

CreateElementSchema(element) ==
    LET typed ==
            IF "type" \in DOMAIN element /\ element.type # None
            THEN IF "name" \in DOMAIN element.type
                 THEN "$ref" :> ("#/definitions/" \o element.type.name)
                 ELSE "type" :> MapXsdTypeToJsonType(element.type)
            ELSE "type" :> "string"
        wrapped ==
            IF "occurs" \in DOMAIN element /\ is_array(element.occurs)
            THEN ("type" :> "array") @@ ("items" :> typed)
                 @@ ("minItems" :> element.occurs.min)
                 @@ (IF element.occurs.max # Unbounded
                     THEN "maxItems" :> element.occurs.max
                     ELSE EmptyDict)
            ELSE typed
    IN  IF "annotation" \in DOMAIN element /\ element.annotation # <<>>
        THEN ("description" :> JoinDocs(element.annotation)) @@ wrapped
        ELSE wrapped

\* What one pass of `for child_particle in particle.particles` adds for an
\* element child: its schema under its name, its name when minOccurs >= 1.
\* The xs:all branch and the sequence/choice branch are both translated.
\* ElementChild with every child of an xs:all group required.
ElementChild_AllRequired(particle_type, child_particle, acc) ==
    LET props == (child_particle.name :> CreateElementSchema(child_particle))
                 @@ acc.properties
    IN  IF particle_type = "All" \/ child_particle.occurs.min >= 1
        THEN [properties |-> props,
              required |-> Append(acc.required, child_particle.name)]
        ELSE [properties |-> props, required |-> acc.required]

ElementChild(particle_type, child_particle, acc) ==
    LET props == (child_particle.name :> CreateElementSchema(child_particle))
                 @@ acc.properties
    IN  IF particle_type = "All"
        THEN IF child_particle.occurs.min >= 1
             THEN [properties |-> props,
                   required |-> Append(acc.required, child_particle.name)]
             ELSE [properties |-> props, required |-> acc.required]
        ELSE IF child_particle.occurs.min >= 1
             THEN [properties |-> props,
                   required |-> Append(acc.required, child_particle.name)]
             ELSE [properties |-> props, required |-> acc.required]

RECURSIVE ExtractPropertiesFromParticle(_)
RECURSIVE ExtractFromChildren(_, _, _)

\* The body of the for loop over particle.particles, from child i on.
ExtractFromChildren(group, i, acc) ==
    IF i > Len(group.particles)
    THEN acc
    ELSE
      LET child_particle == group.particles[i]
          next ==
            IF "name" \in DOMAIN child_particle /\ child_particle.name # ""
            THEN ElementChild(group.class, child_particle, acc)
            ELSE IF "particles" \in DOMAIN child_particle
            THEN LET nested == ExtractPropertiesFromParticle(child_particle)
                 IN  [properties |-> nested.properties @@ acc.properties,
                      required |-> acc.required \o nested.required]
            ELSE acc
      IN  ExtractFromChildren(group, i + 1, next)

ExtractPropertiesFromParticle(p) ==
    LET empty == [properties |-> EmptyDict, required |-> <<>>]
    IN  IF p = None
        THEN empty
        ELSE IF "particles" \in DOMAIN p /\ p.particles # <<>>
        THEN ExtractFromChildren(p, 1, empty)
        ELSE IF "name" \in DOMAIN p /\ p.name # ""
        THEN [properties |-> p.name :> CreateElementSchema(p),
              required |-> IF p.occurs.min >= 1 THEN <<p.name>> ELSE <<>>]
        ELSE empty

(***************************************************************************)
(* The particles the model builds.                                         *)
(***************************************************************************)
\* (minOccurs, maxOccurs) as XSDParser hands them to ElementOccurrence.
OccursInputs == {<<0, 1>>, <<1, 1>>, <<0, 3>>, <<1, Unbounded>>}

Occurrences == {ElementOccurrence(o[1], o[2]) : o \in OccursInputs}

\* The type objects elements refer to: a named complex type of the schema
\* and the built-in xs:string as _get_or_create_type_reference converts it.
PersonType == ComplexType("PersonType")

StringType == [SimpleType("string") EXCEPT !.primitive_type = "string"]

\* An element without a type, a documented element of a named complex type
\* and an element of a built-in type.
Elements ==
    {Element("id", None, occurs, <<>>) : occurs \in Occurrences}
    \cup {Element("name", PersonType, occurs, <<"The name", "of a person">>) :
             occurs \in Occurrences}
    \cup {Element("email", StringType, ElementOccurrence(o[1], o[2]), <<>>) :
             o \in {<<0, 1>>, <<1, 1>>}}

Wildcards == {AnyParticle(ElementOccurrence(1, 1))}

EmptyGroups == {ModelGroup(class) : class \in GroupClasses}

NewParticles == Elements \cup Wildcards \cup EmptyGroups

\* The paths to the model groups of a particle tree.
RECURSIVE GroupPaths(_)
GroupPaths(p) ==
    IF ~IsGroup(p)
    THEN {}
    ELSE {<<>>} \cup UNION {{<<i>> \o q : q \in GroupPaths(p.particles[i])} :
                               i \in DOMAIN p.particles}

\* The particles of a tree, groups included.
RECURSIVE ParticleCount(_)
RECURSIVE ParticleCountFrom(_, _)
ParticleCountFrom(ps, i) ==
    IF i > Len(ps) THEN 0 ELSE ParticleCount(ps[i]) + ParticleCountFrom(ps, i + 1)
ParticleCount(p) ==
    IF p = None THEN 0
    ELSE IF IsGroup(p) THEN 1 + ParticleCountFrom(p.particles, 1)
    ELSE 1

(***************************************************************************)
(* SpecResolve: a content model is built as XSDParser._convert_particle    *)
(* builds it and handed to the particle resolver.                          *)
(***************************************************************************)
InitResolve ==
    /\ types = <<>>
    /\ elements = <<>>
    /\ attr_style = "prefix"
    /\ target_namespace = ""
    /\ json_schemas = <<>>
    /\ particle = None
    /\ properties = EmptyDict
    /\ required_elements = <<>>
    /\ pc = "particle"
    /\ NoCall
    /\ NoRun

\* The root particle: an element, a wildcard or an empty model group.
NewParticle(p) ==
    /\ pc = "particle"
    /\ particle = None
    /\ particle' = p
    /\ UNCHANGED <<types, elements, attr_style, target_namespace, json_schemas,
                   properties, required_elements, pc>>
    /\ UNCHANGED <<call_vars, run_vars>>

\* ModelGroup.add_particle on one of the tree's groups.
AddParticle(path, child) ==
    /\ pc = "particle"
    /\ ParticleCount(particle) < MaxParticles
    /\ particle' = add_particle(particle, path, child)
    /\ UNCHANGED <<types, elements, attr_style, target_namespace, json_schemas,
                   properties, required_elements, pc>>
    /\ UNCHANGED <<call_vars, run_vars>>

\* properties, required = self._extract_properties_from_particle(particle)
Resolve ==
    /\ pc = "particle"
    /\ LET result == ExtractPropertiesFromParticle(particle)
       IN  /\ properties' = result.properties
           /\ required_elements' = result.required
    /\ pc' = "resolved"
    /\ UNCHANGED <<types, elements, attr_style, target_namespace, json_schemas, particle>>
    /\ UNCHANGED <<call_vars, run_vars>>

NextResolve ==
    \/ \E p \in NewParticles : NewParticle(p)
    \/ \E path \in GroupPaths(particle), child \in NewParticles :
          AddParticle(path, child)
    \/ Resolve

SpecResolve == InitResolve /\ [][NextResolve]_vars

(***************************************************************************)
(* converter.py: the type mapper                                           *)
(***************************************************************************)
\* The Type object a base_type refers to.
TypeNamed(all_types, name) ==
    all_types[CHOOSE i \in DOMAIN all_types : all_types[i].name = name]

\* The values of the facets named "enumeration", lists spliced in.
RECURSIVE EnumerationValues(_)
EnumerationValues(facets) ==
    IF facets = <<>> THEN <<>>
    ELSE LET facet == Head(facets)
             mine == IF "name" \in DOMAIN facet /\ facet.name = "enumeration"
                     THEN IF "list" \in DOMAIN facet.value
                          THEN facet.value.list
                          ELSE <<facet.value.scalar>>
                     ELSE <<>>
         IN  mine \o EnumerationValues(Tail(facets))

\* AttributeProperties without the skip of the attributes the base names.
RECURSIVE AttributeProperties_NoDedup(_, _, _, _, _)
AttributeProperties_NoDedup(xsd_type, base_attribute_names, style, i, acc) ==
    IF i > Len(xsd_type.attributes)
    THEN acc
    ELSE
      LET attr == xsd_type.attributes[i]
          attr_name == IF style = "prefix" THEN "@" \o attr.name ELSE attr.name
          schema == [type |-> MapXsdTypeToJsonType(attr.type),
                     description |-> "Attribute: " \o attr.name]
      IN  AttributeProperties_NoDedup(xsd_type, base_attribute_names, style, i + 1,
              [properties |-> (attr_name :> schema) @@ acc.properties,
               required |-> IF attr.use = "required"
                            THEN Append(acc.required, attr_name)
                            ELSE acc.required])

\* for attr in xsd_type.attributes: the properties and the required keys the
\* loop adds to `acc`, from attribute i on.
RECURSIVE AttributeProperties(_, _, _, _, _)
AttributeProperties(xsd_type, base_attribute_names, style, i, acc) ==
    IF i > Len(xsd_type.attributes)
    THEN acc
    ELSE
      LET attr == xsd_type.attributes[i]
          attr_name == IF style = "prefix" THEN "@" \o attr.name ELSE attr.name
          schema == [type |-> MapXsdTypeToJsonType(attr.type),
                     description |-> IF attr.annotation # <<>>
                                     THEN JoinDocs(attr.annotation)
                                     ELSE "Attribute: " \o attr.name]
          next ==
            IF xsd_type.base_type # "" /\ attr.name \in base_attribute_names
            THEN acc
            ELSE [properties |-> (attr_name :> schema) @@ acc.properties,
                  required |-> IF attr.use = "required"
                               THEN Append(acc.required, attr_name)
                               ELSE acc.required]
      IN  AttributeProperties(xsd_type, base_attribute_names, style, i + 1, next)

\* The Type object xsd_type.base_type refers to, None without a base type.
BaseOf(xsd_type, all_types) ==
    IF "base_type" \in DOMAIN xsd_type /\ xsd_type.base_type # ""
    THEN TypeNamed(all_types, xsd_type.base_type)
    ELSE None

\* json_schema as first built: $schema, $id, title, and the description of an
\* annotated type.
FragmentHeader(xsd_type, namespace) ==
    ("$schema" :> "https://json-schema.org/draft/2020-12/schema")
    @@ ("$id" :> (namespace \o "/" \o xsd_type.name))
    @@ ("title" :> ("Generated JSON Schema for " \o xsd_type.name))
    @@ (IF xsd_type.annotation # <<>>
        THEN "description" :> JoinDocs(xsd_type.annotation)
        ELSE EmptyDict)

\* TypeBranch that records no x-inheritance for a restriction.
TypeBranch_RestrictionUnmarked(xsd_type, base) ==
    IF "facets" \in DOMAIN xsd_type /\ xsd_type.facets # <<>>
    THEN IF EnumerationValues(xsd_type.facets) # <<>>
         THEN [into |-> "detached",
               body |-> ("type" :> "string")
                        @@ ("enum" :> EnumerationValues(xsd_type.facets))]
         ELSE [into |-> "detached",
               body |-> ("type" :> MapXsdTypeToJsonType(xsd_type))]
    ELSE IF base # None /\ xsd_type.derivation_method = "extension"
    THEN [into |-> "allOf",
          body |-> "x-inheritance" :> [type |-> "extension", baseType |-> base.name]]
    ELSE [into |-> "properties",
          body |-> "type" :> (IF base # None \/ "particle" \in DOMAIN xsd_type
                              THEN "object" ELSE "string")]

\* TypeBranch whose last branch looks at the values of particle and
\* attributes, not at their presence on the class.
TypeBranch_ByContent(xsd_type, base) ==
    IF "facets" \in DOMAIN xsd_type /\ xsd_type.facets # <<>>
    THEN IF EnumerationValues(xsd_type.facets) # <<>>
         THEN [into |-> "detached",
               body |-> ("type" :> "string")
                        @@ ("enum" :> EnumerationValues(xsd_type.facets))]
         ELSE [into |-> "detached",
               body |-> ("type" :> MapXsdTypeToJsonType(xsd_type))]
    ELSE IF base # None /\ xsd_type.derivation_method = "extension"
    THEN [into |-> "allOf",
          body |-> "x-inheritance" :> [type |-> "extension", baseType |-> base.name]]
    ELSE IF base # None
    THEN [into |-> "properties",
          body |-> ("type" :> "object")
                   @@ ("x-inheritance" :>
                         [type |-> "restriction", baseType |-> base.name])]
    ELSE [into |-> "properties",
          body |-> "type" :>
              (IF "particle" \in DOMAIN xsd_type
                  /\ (xsd_type.particle # None \/ xsd_type.attributes # <<>>)
               THEN "object" ELSE "string")]

\* if facets / elif derivation / else: the keys the branch sets (`body`) and
\* where it leaves additional_properties pointing (`into`): at the fragment's
\* own "properties", at the "properties" of allOf[1], or at a dict of its own.
TypeBranch(xsd_type, base) ==
    IF "facets" \in DOMAIN xsd_type /\ xsd_type.facets # <<>>
    THEN IF EnumerationValues(xsd_type.facets) # <<>>
         THEN [into |-> "detached",
               body |-> ("type" :> "string")
                        @@ ("enum" :> EnumerationValues(xsd_type.facets))]
         ELSE [into |-> "detached",
               body |-> ("type" :> MapXsdTypeToJsonType(xsd_type))]
    ELSE IF base # None /\ "derivation_method" \in DOMAIN xsd_type
    THEN IF xsd_type.derivation_method = "extension"
         THEN [into |-> "allOf",
               body |-> "x-inheritance" :>
                           [type |-> "extension", baseType |-> base.name]]
         ELSE [into |-> "properties",
               body |-> ("type" :> "object")
                        @@ ("x-inheritance" :>
                              [type |-> "restriction", baseType |-> base.name])]
    ELSE [into |-> "properties",
          body |-> "type" :>
              (IF "particle" \in DOMAIN xsd_type \/ "attributes" \in DOMAIN xsd_type
               THEN "object" ELSE "string")]

\* if hasattr(xsd_type, "particle") and xsd_type.particle: the properties and
\* required names of the content model.
ParticleProperties(xsd_type) ==
    IF "particle" \in DOMAIN xsd_type /\ xsd_type.particle # None
    THEN ExtractPropertiesFromParticle(xsd_type.particle)
    ELSE [properties |-> EmptyDict, required |-> <<>>]

\* base_attributes: the names of the attributes of the direct base type.
BaseAttributeNames(base) ==
    IF base # None /\ "attributes" \in DOMAIN base
    THEN {base.attributes[i].name : i \in DOMAIN base.attributes}
    ELSE {}

\* if hasattr(xsd_type, "attributes"): the attribute loop, run on top of `acc`.
AttributesInto(xsd_type, base, style, acc) ==
    IF "attributes" \in DOMAIN xsd_type
    THEN AttributeProperties(xsd_type, BaseAttributeNames(base), style, 1, acc)
    ELSE acc

\* Assemble that writes the additional properties of an extension to the
\* fragment's own "properties".
Assemble_ExtensionInPlace(header, branch, base, additional) ==
    header @@ branch.body
    @@ (IF branch.into = "allOf"
        THEN ("properties" :> additional.properties)
             @@ ("allOf" :> << "$ref" :> ("#/definitions/" \o base.name),
                               [type |-> "object", properties |-> EmptyDict] >>)
        ELSE IF branch.into = "properties"
        THEN "properties" :> additional.properties
        ELSE "properties" :> EmptyDict)
    @@ (IF additional.required # <<>>
        THEN "required" :> additional.required
        ELSE EmptyDict)

\* The fragment once the branch, the particle and the attributes have written
\* to it, and "required" is set when any name was collected.
Assemble(header, branch, base, additional) ==
    header @@ branch.body
    @@ (IF branch.into = "allOf"
        THEN ("properties" :> EmptyDict)
             @@ ("allOf" :> << "$ref" :> ("#/definitions/" \o base.name),
                               [type |-> "object", properties |-> additional.properties] >>)
        ELSE IF branch.into = "properties"
        THEN "properties" :> additional.properties
        ELSE "properties" :> EmptyDict)
    @@ (IF additional.required # <<>>
        THEN "required" :> additional.required
        ELSE EmptyDict)

\* _create_json_schema_for_type against a resolved base type.
CreateFragment(xsd_type, namespace, style, base) ==
    Assemble(FragmentHeader(xsd_type, namespace),
             TypeBranch(xsd_type, base),
             base,
             AttributesInto(xsd_type, base, style, ParticleProperties(xsd_type)))

\* _create_json_schema_for_type keeping state between calls: once a call has
\* been made, the title of the fragment says so.
CreateJsonSchemaForType_Stateful(xsd_type, namespace, style, all_types) ==
    IF Len(returned) = 0
    THEN CreateFragment(xsd_type, namespace, style, BaseOf(xsd_type, all_types))
    ELSE ("title" :> "Generated JSON Schema (cached)")
         @@ CreateFragment(xsd_type, namespace, style, BaseOf(xsd_type, all_types))

\* _create_json_schema_for_type.  `all_types` resolves xsd_type.base_type.
CreateJsonSchemaForType(xsd_type, namespace, style, all_types) ==
    CreateFragment(xsd_type, namespace, style, BaseOf(xsd_type, all_types))

\* The fragment of one top-level element.
ElementFragment(element, namespace) ==
    ("$schema" :> "https://json-schema.org/draft/2020-12/schema")
    @@ ("$id" :> (namespace \o "/elements/" \o element.name))
    @@ ("title" :> ("Element: " \o element.name))
    @@ ("type" :> "object")
    @@ ("description" :> IF element.annotation # <<>>
                         THEN JoinDocs(element.annotation) ELSE "")

\* namespace = schema_model.target_namespace or "http://example.com"
Namespace(namespace_or_none) ==
    IF namespace_or_none # "" THEN namespace_or_none ELSE "http://example.com"

\* The single fragment of a schema with neither types nor elements.
FallbackSchemas(namespace) ==
    << ("$schema" :> "https://json-schema.org/draft/2020-12/schema")
       @@ ("$id" :> namespace)
       @@ ("title" :> "Generated JSON Schema")
       @@ ("type" :> "object")
       @@ ("properties" :> EmptyDict) >>

\* _transform_to_json: a fragment per type, a fragment per top-level element,
\* the fallback fragment when there is neither.
TransformToJson(all_types, all_elements, namespace_or_none, style) ==
    IF all_types \o all_elements # <<>>
    THEN [i \in DOMAIN all_types |->
             CreateJsonSchemaForType(all_types[i], Namespace(namespace_or_none),
                                     style, all_types)]
         \o [i \in DOMAIN all_elements |->
                ElementFragment(all_elements[i], Namespace(namespace_or_none))]
    ELSE FallbackSchemas(Namespace(namespace_or_none))

(***************************************************************************)
(* The schemas the model builds.                                           *)
(***************************************************************************)
\* The k-th type added to a schema is named TypeNames[k].
TypeNames == <<"BaseType", "MidType", "ExtendedType">>

AttributeStyles == {"prefix", "group"}

Namespaces == {"", "http://example.com/inheritance"}

AttributeUses == {"required", "optional", "prohibited"}

IntType == SimpleType("int")

\* The attributes added to complex types: an untyped `version` in each use
\* and a required xs:int `priority`.
Attributes ==
    {Attribute("version", use, None) : use \in AttributeUses}
    \cup {Attribute("priority", "required", IntType)}

\* The facets added to simple types: what XSDParser._convert_simple_type
\* adds for an xs:enumeration (the list of values), a single enumeration
\* value, and a facet that is no enumeration.
Facets ==
    {Facet("enumeration", ListValue(<<"red", "green", "blue">>)),
     Facet("enumeration", Scalar("red")),
     Facet("maxLength", Scalar("10"))}

\* primitive_type of the simple types: None, or the primitive's local name.
PrimitiveTypes == {"decimal"}

\* The content models given to complex types.
ContentModels ==
    {add_particle(ModelGroup("Sequence"), <<>>,
                  Element("version", None, ElementOccurrence(1, 1), <<>>)),
     add_particle(
         add_particle(
             add_particle(ModelGroup("Sequence"), <<>>,
                          Element("name", PersonType, ElementOccurrence(0, 3), <<>>)),
             <<>>, ModelGroup("Choice")),
         <<2>>, Element("priority", IntType, ElementOccurrence(1, 1), <<>>)),
     add_particle(ModelGroup("All"), <<>>, AnyParticle(ElementOccurrence(0, 1)))}

Documentations == {"A documented type"}

TopLevelElements == {Element("root", PersonType, ElementOccurrence(1, 1), <<>>)}

\* The attributes, facets, content models and documentation strings of the
\* types of a schema.
RECURSIVE TypeMembers(_)
TypeMembers(all_types) ==
    IF all_types = <<>> THEN 0
    ELSE LET t == Head(all_types)
         IN  Len(t.annotation)
             + (IF t.class = "ComplexType"
                THEN Len(t.attributes) + (IF t.particle # None THEN 1 ELSE 0)
                ELSE Len(t.facets))
             + TypeMembers(Tail(all_types))

\* What has been added to the schema besides its types.
Members == TypeMembers(types) + Len(elements)

TypeNamesOf(all_types) == {all_types[i].name : i \in DOMAIN all_types}

(***************************************************************************)
(* Spec: a schema object model is built, as XSDParser builds it, and       *)
(* transformed to JSON Schema fragments.                                   *)
(***************************************************************************)
Init ==
    /\ types = <<>>
    /\ elements = <<>>
    /\ attr_style \in AttributeStyles
    /\ target_namespace \in Namespaces
    /\ json_schemas = <<>>
    /\ particle = None
    /\ properties = EmptyDict
    /\ required_elements = <<>>
    /\ pc = "model"
    /\ NoCall
    /\ NoRun

\* Schema.add_type of a new ComplexType; XSDParser._convert_complex_type sets
\* base_type and derivation_method.
AddComplexType(base, method) ==
    /\ pc = "model"
    /\ Len(types) < Len(TypeNames)
    /\ types' = Append(types,
                   [ComplexType(TypeNames[Len(types) + 1]) EXCEPT
                       !.base_type = base, !.derivation_method = method])
    /\ UNCHANGED <<elements, attr_style, target_namespace, json_schemas,
                   particle, properties, required_elements, pc>>
    /\ UNCHANGED <<call_vars, run_vars>>

\* Schema.add_type of a new SimpleType; XSDParser._convert_simple_type sets
\* primitive_type, and derives every simple type by restriction.
AddSimpleType(base, primitive) ==
    /\ pc = "model"
    /\ Len(types) < Len(TypeNames)
    /\ types' = Append(types,
                   [SimpleType(TypeNames[Len(types) + 1]) EXCEPT
                       !.primitive_type = primitive,
                       !.base_type = base,
                       !.derivation_method = IF base # "" THEN "restriction" ELSE ""])
    /\ UNCHANGED <<elements, attr_style, target_namespace, json_schemas,
                   particle, properties, required_elements, pc>>
    /\ UNCHANGED <<call_vars, run_vars>>

\* ComplexType.add_attribute; the parser adds one attribute per name.
AddAttribute(i, attribute) ==
    /\ pc = "model"
    /\ Members < MaxMembers
    /\ types[i].class = "ComplexType"
    /\ \A k \in DOMAIN types[i].attributes :
          types[i].attributes[k].name # attribute.name
    /\ types' = [types EXCEPT ![i] = add_attribute(@, attribute)]
    /\ UNCHANGED <<elements, attr_style, target_namespace, json_schemas,
                   particle, properties, required_elements, pc>>
    /\ UNCHANGED <<call_vars, run_vars>>

\* SimpleType.add_facet
AddFacet(i, facet) ==
    /\ pc = "model"
    /\ Members < MaxMembers
    /\ types[i].class = "SimpleType"
    /\ types' = [types EXCEPT ![i] = add_facet(@, facet.name, facet.value)]
    /\ UNCHANGED <<elements, attr_style, target_namespace, json_schemas,
                   particle, properties, required_elements, pc>>
    /\ UNCHANGED <<call_vars, run_vars>>

\* complex_type.particle = particle
SetParticle(i, content) ==
    /\ pc = "model"
    /\ Members < MaxMembers
    /\ types[i].class = "ComplexType"
    /\ types[i].particle = None
    /\ types' = [types EXCEPT ![i].particle = content]
    /\ UNCHANGED <<elements, attr_style, target_namespace, json_schemas,
                   particle, properties, required_elements, pc>>
    /\ UNCHANGED <<call_vars, run_vars>>

\* Annotation.add_documentation on a type
AddDocumentation(i, text) ==
    /\ pc = "model"
    /\ Members < MaxMembers
    /\ types' = [types EXCEPT ![i] = add_documentation(@, text)]
    /\ UNCHANGED <<elements, attr_style, target_namespace, json_schemas,
                   particle, properties, required_elements, pc>>
    /\ UNCHANGED <<call_vars, run_vars>>

\* Schema.add_element
AddElement(element) ==
    /\ pc = "model"
    /\ Members < MaxMembers
    /\ \A k \in DOMAIN elements : elements[k].name # element.name
    /\ elements' = Append(elements, element)
    /\ UNCHANGED <<types, attr_style, target_namespace, json_schemas,
                   particle, properties, required_elements, pc>>
    /\ UNCHANGED <<call_vars, run_vars>>

\* json_schemas = self._transform_to_json(schema_model)
Transform ==
    /\ pc = "model"
    /\ json_schemas' = TransformToJson(types, elements, target_namespace, attr_style)
    /\ pc' = "transformed"
    /\ UNCHANGED <<types, elements, attr_style, target_namespace,
                   particle, properties, required_elements>>
    /\ UNCHANGED <<call_vars, run_vars>>

Next ==
    \/ \E base \in {""} \cup TypeNamesOf(types) :
          \E method \in (IF base = "" THEN {""} ELSE {"extension", "restriction"}) :
             AddComplexType(base, method)
    \/ \E base \in {""} \cup TypeNamesOf(types), primitive \in PrimitiveTypes :
          AddSimpleType(base, primitive)
    \/ \E i \in DOMAIN types, attribute \in Attributes : AddAttribute(i, attribute)
    \/ \E i \in DOMAIN types, facet \in Facets : AddFacet(i, facet)
    \/ \E i \in DOMAIN types, content \in ContentModels : SetParticle(i, content)
    \/ \E i \in DOMAIN types, text \in Documentations : AddDocumentation(i, text)
    \/ \E element \in TopLevelElements : AddElement(element)
    \/ Transform

Spec == Init /\ [][Next]_vars

(***************************************************************************)
(* Claims about the particle resolver, checked under SpecResolve.          *)
(***************************************************************************)
Range(seq) == {seq[i] : i \in DOMAIN seq}

\* The leaves (elements and wildcards) of a particle tree, in document order.
RECURSIVE LeafSeq(_)
RECURSIVE LeafSeqFrom(_, _)
LeafSeqFrom(ps, i) ==
    IF i > Len(ps) THEN <<>> ELSE LeafSeq(ps[i]) \o LeafSeqFrom(ps, i + 1)
LeafSeq(p) ==
    IF p = None THEN <<>>
    ELSE IF IsGroup(p) THEN LeafSeqFrom(p.particles, 1)
    ELSE <<p>>

ElementLeaves(p) == {l \in Range(LeafSeq(p)) : l.class = "Element"}

HasWildcard(p) == \E l \in Range(LeafSeq(p)) : l.class = "Any"

HasNestedGroup(p) ==
    IsGroup(p) /\ \E i \in DOMAIN p.particles : IsGroup(p.particles[i])

ElementChildrenOnly(p) ==
    IsGroup(p) /\ \A i \in DOMAIN p.particles : p.particles[i].class = "Element"

WithoutKey(dict, key) == [k \in DOMAIN dict \ {key} |-> dict[k]]

\* C4: for a model group whose children are all elements, properties has
\* one key per child name, required holds exactly the names of the children
\* with occurs.min >= 1, and a sequence, a choice and an all group of the
\* same children resolve to the same result.
C4_GroupOfElements ==
    (pc = "resolved" /\ ElementChildrenOnly(particle)) =>
        LET children == Range(particle.particles)
        IN  /\ DOMAIN properties = {c.name : c \in children}
            /\ Range(required_elements) =
                   {c.name : c \in {d \in children : d.occurs.min >= 1}}
            /\ \A class \in GroupClasses :
                   ExtractPropertiesFromParticle([particle EXCEPT !.class = class])
                       = [properties |-> properties, required |-> required_elements]

\* An all group of two required children and an optional one is resolved.
C4_Witness ==
    /\ pc = "resolved"
    /\ particle.class = "All"
    /\ ElementChildrenOnly(particle)
    /\ Len(particle.particles) = 3
    /\ Cardinality(DOMAIN properties) = 3
    /\ Len(required_elements) = 2
    /\ \E i \in DOMAIN particle.particles :
          /\ particle.particles[i].occurs.min = 0
          /\ particle.particles[i].name \notin Range(required_elements)

\* The fragment C5 expects before the array wrapping.
C5_Base(e) ==
    IF e.type # None /\ e.type.name # ""
    THEN "$ref" :> ("#/definitions/" \o e.type.name)
    ELSE "type" :> (IF e.type = None THEN "string" ELSE MapXsdTypeToJsonType(e.type))

C5_Shape(e, fragment) ==
    LET body == WithoutKey(fragment, "description")
    IN  IF is_array(e.occurs)
        THEN /\ DOMAIN body = {"type", "items", "minItems"}
                    \cup (IF e.occurs.max # Unbounded THEN {"maxItems"} ELSE {})
             /\ body["type"] = "array"
             /\ body["items"] = C5_Base(e)
             /\ body["minItems"] = e.occurs.min
             /\ e.occurs.max # Unbounded => body["maxItems"] = e.occurs.max
        ELSE /\ body = C5_Base(e)
             /\ DOMAIN body \cap {"items", "minItems", "maxItems"} = {}

C9_Flattening ==
    (pc = "resolved" /\ HasNestedGroup(particle)) =>
        /\ DOMAIN properties = {e.name : e \in ElementLeaves(particle)}
        /\ Range(required_elements) =
               {e.name : e \in {d \in ElementLeaves(particle) : d.occurs.min >= 1}}

\* The particle tree without its wildcards.
RECURSIVE StripWildcards(_)
RECURSIVE StripWildcardsFrom(_, _)
StripWildcardsFrom(ps, i) ==
    IF i > Len(ps) THEN <<>>
    ELSE (IF ps[i].class = "Any" THEN <<>> ELSE <<StripWildcards(ps[i])>>)
         \o StripWildcardsFrom(ps, i + 1)
StripWildcards(p) ==
    IF p.class = "Any" THEN None
    ELSE IF IsGroup(p) THEN [p EXCEPT !.particles = StripWildcardsFrom(@, 1)]
    ELSE p

\* C10: a wildcard, at the root or inside a model group, contributes no key
\* to properties and no name to required: the result is the result for the
\* tree without its wildcards.
C10_WildcardContributesNothing ==
    pc = "resolved" =>
        LET stripped == ExtractPropertiesFromParticle(StripWildcards(particle))
        IN  /\ properties = stripped.properties
            /\ required_elements = stripped.required

(***************************************************************************)
(* Claims about the type mapper, checked under Spec.  After Transform,     *)
(* json_schemas[i] is the fragment of types[i].                            *)
(***************************************************************************)
HasFacets(t) == "facets" \in DOMAIN t /\ t.facets # <<>>

HasEnumeration(t) ==
    "facets" \in DOMAIN t
    /\ \E k \in DOMAIN t.facets : t.facets[k].name = "enumeration"

Derived(t) == t.base_type # ""

DirectBase(t) == TypeNamed(types, t.base_type)

\* The types above t on its derivation chain.
RECURSIVE Ancestors(_)
Ancestors(t) ==
    IF Derived(t) THEN {DirectBase(t)} \cup Ancestors(DirectBase(t)) ELSE {}

AttributesOf(t) == IF "attributes" \in DOMAIN t THEN Range(t.attributes) ELSE {}

AttributeNames(t) == {a.name : a \in AttributesOf(t)}

AttributeKey(a) == IF attr_style = "prefix" THEN "@" \o a.name ELSE a.name

AttributeSchema(a) ==
    [type |-> MapXsdTypeToJsonType(a.type), description |-> "Attribute: " \o a.name]

\* The properties map a fragment's members are written to.
MemberProperties(fragment) ==
    IF "allOf" \in DOMAIN fragment
    THEN fragment["allOf"][2]["properties"]
    ELSE fragment["properties"]

\* Attribute a is a property of the fragment.
Emits(fragment, a) ==
    /\ AttributeKey(a) \in DOMAIN MemberProperties(fragment)
    /\ MemberProperties(fragment)[AttributeKey(a)] = AttributeSchema(a)

RequiredOf(fragment) ==
    IF "required" \in DOMAIN fragment THEN Range(fragment["required"]) ELSE {}

\* The members type t declares itself: what the particle resolver returns
\* for its particle, and its attributes that `excluded` does not name.
OwnMembers(t, excluded) ==
    LET from_particle == ParticleProperties(t).properties
        own == {a \in AttributesOf(t) : a.name \notin excluded}
    IN  [k \in DOMAIN from_particle \cup {AttributeKey(a) : a \in own} |->
            IF \E a \in own : AttributeKey(a) = k
            THEN AttributeSchema(CHOOSE a \in own : AttributeKey(a) = k)
            ELSE from_particle[k]]

\* C1: the fragment of a type with an enumeration value has type "string"
\* and enum equal to the enumeration values in insertion order, and has no
\* properties, allOf or x-inheritance key, also when the type has a base.
C1_EnumFragment ==
    pc = "transformed" =>
        \A i \in DOMAIN types :
            HasEnumeration(types[i]) =>
                /\ json_schemas[i]["type"] = "string"
                /\ json_schemas[i]["enum"] = EnumerationValues(types[i].facets)
                /\ DOMAIN json_schemas[i]
                       \cap {"properties", "allOf", "x-inheritance"} = {}

\* C2: the fragment of a type without enumeration that extends B has
\* allOf[0] = {$ref: "#/definitions/<B.name>"}, allOf[1] = {type: "object",
\* properties: P} with P the members the type declares itself, no attribute
\* of B among them, and x-inheritance = {type: "extension", baseType: B.name}.
C2_Extension ==
    pc = "transformed" =>
        \A i \in DOMAIN types :
            (/\ ~HasEnumeration(types[i])
             /\ Derived(types[i])
             /\ types[i].derivation_method = "extension") =>
                LET B == DirectBase(types[i])
                    fragment == json_schemas[i]
                IN  /\ {"allOf", "x-inheritance"} \subseteq DOMAIN fragment
                    /\ fragment["allOf"][1] = ("$ref" :> ("#/definitions/" \o B.name))
                    /\ fragment["allOf"][2] =
                          [type |-> "object",
                           properties |-> OwnMembers(types[i], AttributeNames(B))]
                    /\ \A b \in AttributesOf(B) : ~Emits(fragment, b)
                    /\ \A a \in AttributesOf(types[i]) :
                          a.name \notin AttributeNames(B) => Emits(fragment, a)
                    /\ fragment["x-inheritance"] =
                          [type |-> "extension", baseType |-> B.name]

\* BaseType{version} extended by a type that adds priority: @priority is in
\* allOf[1].properties and @version is not.
C2_Witness ==
    /\ pc = "transformed"
    /\ attr_style = "prefix"
    /\ \E i \in DOMAIN types :
          /\ Derived(types[i])
          /\ types[i].derivation_method = "extension"
          /\ "version" \in AttributeNames(DirectBase(types[i]))
          /\ "priority" \in AttributeNames(types[i])
          /\ "@priority" \in DOMAIN json_schemas[i]["allOf"][2]["properties"]
          /\ "@version" \notin DOMAIN json_schemas[i]["allOf"][2]["properties"]

\* C3 as stated: no attribute named in the attribute list of any type on
\* T's derivation chain is emitted as a property of T's fragment.
C3_WholeChain ==
    pc = "transformed" =>
        \A i \in DOMAIN types :
            \A A \in Ancestors(types[i]) :
                \A a \in AttributesOf(types[i]) :
                    a.name \in AttributeNames(A) => ~Emits(json_schemas[i], a)

\* C3: an attribute of a derived type T is emitted as a property of T's
\* fragment exactly when the attribute list of T's direct base does not name
\* it; the lists of the types further up the chain are not consulted.
C3_DirectBase ==
    pc = "transformed" =>
        \A i \in DOMAIN types :
            Derived(types[i]) =>
                \A a \in AttributesOf(types[i]) :
                    Emits(json_schemas[i], a)
                        <=> a.name \notin AttributeNames(DirectBase(types[i]))

\* A derived type repeats an attribute of its direct base and does not emit
\* it.
C3_Witness ==
    /\ pc = "transformed"
    /\ \E i \in DOMAIN types :
          /\ Derived(types[i])
          /\ \E a \in AttributesOf(types[i]) :
                /\ a.name \in AttributeNames(DirectBase(types[i]))
                /\ AttributeKey(a) \notin DOMAIN MemberProperties(json_schemas[i])

C7_ObjectIffMembers ==
    pc = "transformed" =>
        \A i \in DOMAIN types :
            (~Derived(types[i]) /\ ~HasEnumeration(types[i])) =>
                json_schemas[i]["type"] =
                    IF \/ "particle" \in DOMAIN types[i] /\ types[i].particle # None
                       \/ AttributesOf(types[i]) # {}
                    THEN "object" ELSE "string"

\* C7: the fragment of a type with no derivation and no facets has type
\* "object" exactly when the type is a complex type, with or without a
\* particle or attributes, and type "string" when it is a simple type.
C7_ObjectIffComplex ==
    pc = "transformed" =>
        \A i \in DOMAIN types :
            (~Derived(types[i]) /\ ~HasFacets(types[i])) =>
                /\ json_schemas[i]["type"] =
                      IF types[i].class = "ComplexType" THEN "object" ELSE "string"
                /\ json_schemas[i]["properties"] = OwnMembers(types[i], {})

\* A complex type with neither particle nor attributes is mapped to an
\* empty object, beside a simple type without facets mapped to a string.
C7_Witness ==
    /\ pc = "transformed"
    /\ \E i \in DOMAIN types :
          /\ types[i].class = "ComplexType"
          /\ ~Derived(types[i])
          /\ types[i].particle = None
          /\ types[i].attributes = <<>>
          /\ json_schemas[i]["type"] = "object"
          /\ json_schemas[i]["properties"] = EmptyDict
    /\ \E i \in DOMAIN types :
          /\ types[i].class = "SimpleType"
          /\ ~Derived(types[i])
          /\ types[i].facets = <<>>
          /\ json_schemas[i]["type"] = "string"

\* C8: in the fragment of a type without enumeration every emitted
\* attribute is keyed "@" + name in the prefix style and by its name
\* otherwise, and required holds an attribute's key exactly when the
\* attribute is emitted and its use is required.
C8_AttributeKeys ==
    pc = "transformed" =>
        \A i \in DOMAIN types :
            ~HasEnumeration(types[i]) =>
                \A a \in AttributesOf(types[i]) :
                    /\ (~Derived(types[i]) \/ a.name \notin AttributeNames(DirectBase(types[i])))
                          => Emits(json_schemas[i], a)
                    /\ AttributeKey(a) \in RequiredOf(json_schemas[i])
                          <=> (Emits(json_schemas[i], a) /\ a.use = "required")

\* ---------------------------------------------------------------------------
\* Converter._map_xsd_type_to_json_type called on its own.

\* Declared names of the types handed to the mapper.
MappedNames ==
    {"PersonType", "PointType", "dateTime", "NCName", "Point", "Interval",
     "Validate", "Timestamp", "Amount", "floatToken", "doubleInt",
     "booleanFlag", "unsignedInt", "anyURI", ""}

\* Primitive types XSDParser._convert_simple_type records ("" for none).
MappedPrimitives == {"", "decimal", "boolean", "string", "date", "long", "float"}

\* The arguments of the mapper: no type, a complex type (it has no
\* primitive_type attribute), a simple type with or without a primitive type.
MappedTypes ==
    {None}
    \cup {ComplexType(n) : n \in MappedNames}
    \cup {[SimpleType(n) EXCEPT !.primitive_type = p] :
              n \in MappedNames, p \in MappedPrimitives}

InitPrimitive ==
    /\ types = <<>>
    /\ elements = <<>>
    /\ attr_style = "properties"
    /\ target_namespace = ""
    /\ json_schemas = <<>>
    /\ particle = None
    /\ properties = EmptyDict
    /\ required_elements = <<>>
    /\ pc = "call"
    /\ arguments \in MappedTypes
    /\ returned = None
    /\ NoRun

\* One call of Converter._map_xsd_type_to_json_type.
MapPrimitive ==
    /\ pc = "call"
    /\ returned' = MapXsdTypeToJsonType(arguments)
    /\ pc' = "returned"
    /\ UNCHANGED <<types, elements, attr_style, target_namespace, json_schemas,
                   particle, properties, required_elements, arguments, run_vars>>

NextPrimitive == MapPrimitive

SpecPrimitive == InitPrimitive /\ [][NextPrimitive]_vars

\* The buckets of the mapping in their order, tokens as the documentation
\* writes them.
C11_Buckets ==
    << [tokens |-> {"string", "normalizedstring", "token", "Name", "NCName", "ID"},
        json_type |-> "string"],
       [tokens |-> {"int", "integer", "long", "short", "byte"}, json_type |-> "integer"],
       [tokens |-> {"decimal", "double", "float"}, json_type |-> "number"],
       [tokens |-> {"boolean"}, json_type |-> "boolean"],
       [tokens |-> {"date", "time", "datetime"}, json_type |-> "string"] >>

\* token occurs in word, letter case ignored.
C11_Occurs(token, word) ==
    LET t == Lower(Chars(token))
        w == Lower(Chars(word))
    IN  \E i \in 1..Len(w) : \E j \in i..Len(w) : SubSeq(w, i, j) = t

\* The buckets one of whose tokens occurs in word.
C11_Matching(word) ==
    {b \in DOMAIN C11_Buckets : \E t \in C11_Buckets[b].tokens : C11_Occurs(t, word)}

\* The name the mapper looks at: the primitive type, else the declared name.
C11_Word(xsd_type) ==
    IF "primitive_type" \in DOMAIN xsd_type /\ xsd_type.primitive_type # ""
    THEN xsd_type.primitive_type
    ELSE xsd_type.name

\* C11: the mapper returns the JSON type of the first bucket, in the fixed
\* order string, integer, number, boolean, date/time, one of whose tokens is a
\* case-insensitive substring of the primitive-type name (the declared name
\* when there is no primitive type), and "string" when no bucket matches or
\* the type is absent.
C11_FirstBucketWins ==
    pc = "returned" =>
        IF arguments = None
        THEN returned = "string"
        ELSE LET matching == C11_Matching(C11_Word(arguments))
             IN  IF matching = {}
                 THEN returned = "string"
                 ELSE \E b \in matching :
                         /\ \A other \in matching : b <= other
                         /\ returned = C11_Buckets[b].json_type

\* A name matching two buckets ("doubleInt": integer and number) was mapped by
\* the earlier one, and a primitive type overrode a declared name.
C11_Witness ==
    /\ pc = "returned"
    /\ arguments # None
    /\ \/ /\ arguments.name = "doubleInt"
          /\ C11_Word(arguments) = "doubleInt"
          /\ C11_Matching("doubleInt") = {2, 3}
          /\ returned = "integer"
       \/ /\ arguments.name = "Point"
          /\ C11_Word(arguments) = "float"
          /\ returned = "number"

\* ---------------------------------------------------------------------------
\* ElementOccurrence constructed on its own.

\* The arguments of the constructor: any integer, and any integer or
\* "unbounded".
OccurrenceArguments ==
    [min_occurs : (0 - MaxOccurs)..MaxOccurs,
     max_occurs : ((0 - MaxOccurs)..MaxOccurs) \cup {Unbounded}]

InitOccurrence ==
    /\ types = <<>>
    /\ elements = <<>>
    /\ attr_style = "properties"
    /\ target_namespace = ""
    /\ json_schemas = <<>>
    /\ particle = None
    /\ properties = EmptyDict
    /\ required_elements = <<>>
    /\ pc = "call"
    /\ arguments \in OccurrenceArguments
    /\ returned = None
    /\ NoRun

\* ElementOccurrence.__init__
ConstructOccurrence ==
    /\ pc = "call"
    /\ returned' = [occurs |-> ElementOccurrence(arguments.min_occurs,
                                                  arguments.max_occurs)]
    /\ pc' = "constructed"
    /\ UNCHANGED <<types, elements, attr_style, target_namespace, json_schemas,
                   particle, properties, required_elements, arguments, run_vars>>

\* The three properties read off the constructed object.
ReadOccurrence ==
    /\ pc = "constructed"
    /\ returned' = [occurs |-> returned.occurs,
                    is_optional |-> is_optional(returned.occurs),
                    is_array |-> is_array(returned.occurs),
                    is_required |-> is_required(returned.occurs)]
    /\ pc' = "read"
    /\ UNCHANGED <<types, elements, attr_style, target_namespace, json_schemas,
                   particle, properties, required_elements, arguments, run_vars>>

NextOccurrence == ConstructOccurrence \/ ReadOccurrence

SpecOccurrence == InitOccurrence /\ [][NextOccurrence]_vars

\* C12: every constructed occurrence has min >= 0 and max "unbounded" or >= 1;
\* is_required is min >= 1, is_optional is min = 0, is_array is max
\* "unbounded" or > 1; is_required and is_array vary independently: (0, 1),
\* (1, 1), (0, unbounded) and (1, unbounded) give the four combinations.
C12_OccurrenceInvariants ==
    /\ pc \in {"constructed", "read"} =>
          /\ returned.occurs.min \in Nat
          /\ returned.occurs.max = Unbounded
                \/ (returned.occurs.max \in Nat /\ returned.occurs.max >= 1)
    /\ pc = "read" =>
          /\ returned.is_required = (returned.occurs.min >= 1)
          /\ returned.is_optional = (returned.occurs.min = 0)
          /\ returned.is_array = (returned.occurs.max = Unbounded
                                     \/ (returned.occurs.max # Unbounded
                                           /\ returned.occurs.max > 1))
          /\ returned.is_required = ~returned.is_optional
          /\ arguments.min_occurs \in {0, 1} /\ arguments.max_occurs \in {1, Unbounded}
                => /\ returned.is_required = (arguments.min_occurs = 1)
                   /\ returned.is_array = (arguments.max_occurs = Unbounded)

\* A negative minimum and a maximum of zero were clamped, and (0, unbounded)
\* was read as optional and array.
C12_Witness ==
    /\ pc = "read"
    /\ \/ /\ arguments.min_occurs < 0
          /\ arguments.max_occurs = 0
          /\ returned.occurs = [min |-> 0, max |-> 1]
       \/ /\ arguments = [min_occurs |-> 0, max_occurs |-> Unbounded]
          /\ returned.is_optional
          /\ returned.is_array
          /\ ~returned.is_required

\* ---------------------------------------------------------------------------
\* Converter._sanitize_filename.  A string is its sequence of characters.

UpperChars ==
    {"A", "B", "C", "D", "E", "F", "G", "H", "I", "J", "K", "L", "M",
     "N", "O", "P", "Q", "R", "S", "T", "U", "V", "W", "X", "Y", "Z"}

LowerChars ==
    {"a", "b", "c", "d", "e", "f", "g", "h", "i", "j", "k", "l", "m",
     "n", "o", "p", "q", "r", "s", "t", "u", "v", "w", "x", "y", "z"}

DigitChars == {"0", "1", "2", "3", "4", "5", "6", "7", "8", "9"}

\* re.sub('([a-z])([A-Z])', r'\1-\2', name): digits do not open a boundary.
RECURSIVE CamelToKebab_LettersOnly(_)
CamelToKebab_LettersOnly(cs) ==
    IF Len(cs) < 2 THEN cs
    ELSE IF cs[1] \in LowerChars /\ cs[2] \in UpperChars
         THEN <<cs[1], "-", cs[2]>> \o CamelToKebab_LettersOnly(SubSeq(cs, 3, Len(cs)))
         ELSE <<cs[1]>> \o CamelToKebab_LettersOnly(SubSeq(cs, 2, Len(cs)))

\* re.sub('([a-z0-9])([A-Z])', r'\1-\2', name): the scan goes left to right
\* and resumes after each match.
RECURSIVE CamelToKebab(_)
CamelToKebab(cs) ==
    IF Len(cs) < 2 THEN cs
    ELSE IF cs[1] \in LowerChars \cup DigitChars /\ cs[2] \in UpperChars
         THEN <<cs[1], "-", cs[2]>> \o CamelToKebab(SubSeq(cs, 3, Len(cs)))
         ELSE <<cs[1]>> \o CamelToKebab(SubSeq(cs, 2, Len(cs)))

\* re.sub('[^a-z0-9-]', '-', name)
ReplaceOther(cs) ==
    [i \in DOMAIN cs |->
        IF cs[i] \in LowerChars \cup DigitChars \cup {"-"} THEN cs[i] ELSE "-"]

\* re.sub('-+', '-', name)
RECURSIVE CollapseHyphens(_)
CollapseHyphens(cs) ==
    IF Len(cs) < 2 THEN cs
    ELSE IF cs[1] = "-" /\ cs[2] = "-"
         THEN CollapseHyphens(SubSeq(cs, 2, Len(cs)))
         ELSE <<cs[1]>> \o CollapseHyphens(SubSeq(cs, 2, Len(cs)))

\* name.strip('-')
RECURSIVE StripHyphens(_)
StripHyphens(cs) ==
    IF cs = <<>> THEN cs
    ELSE IF cs[1] = "-" THEN StripHyphens(SubSeq(cs, 2, Len(cs)))
    ELSE IF cs[Len(cs)] = "-" THEN StripHyphens(SubSeq(cs, 1, Len(cs) - 1))
    ELSE cs

\* _sanitize_filename on the characters of name.
SanitizeChars(cs) ==
    StripHyphens(CollapseHyphens(ReplaceOther(Lower(CamelToKebab(cs)))))

\* "".join(cs)
RECURSIVE Join(_)
Join(cs) == IF cs = <<>> THEN "" ELSE cs[1] \o Join(Tail(cs))

\* Converter._sanitize_filename
SanitizeFilename(name) == Join(SanitizeChars(Chars(name)))

\* Characters of the names sanitized on their own: a lowercase letter, an
\* uppercase letter, a digit, a hyphen, and two characters outside [a-z0-9-].
NameChars == {"a", "B", "1", "-", "_", " "}

\* Sequences over NameChars of length n.
NamesOfLen(n) == [1..n -> NameChars]

\* Names the tests of _sanitize_filename use.
TestedNames ==
    {"PersonType", "XMLHttpRequest", "Simple Name", "Complex_Name-123",
     "Multiple---Hyphens"}

SanitizedNames ==
    {Chars(n) : n \in TestedNames}
    \cup UNION {NamesOfLen(n) : n \in 0..MaxNameLen}

InitSanitize ==
    /\ types = <<>>
    /\ elements = <<>>
    /\ attr_style = "properties"
    /\ target_namespace = ""
    /\ json_schemas = <<>>
    /\ particle = None
    /\ properties = EmptyDict
    /\ required_elements = <<>>
    /\ pc = "call"
    /\ arguments \in SanitizedNames
    /\ returned = None
    /\ NoRun

\* One call of Converter._sanitize_filename.
Sanitize ==
    /\ pc = "call"
    /\ returned' = SanitizeChars(arguments)
    /\ pc' = "returned"
    /\ UNCHANGED <<types, elements, attr_style, target_namespace, json_schemas,
                   particle, properties, required_elements, arguments, run_vars>>

NextSanitize == Sanitize

SpecSanitize == InitSanitize /\ [][NextSanitize]_vars

\* The positions of cs where a lowercase letter or digit is followed by an
\* uppercase letter.
C17_Boundaries(cs) ==
    {i \in 1..(Len(cs) - 1) :
        cs[i] \in LowerChars \cup DigitChars /\ cs[i + 1] \in UpperChars}

\* cs has letters and digits only.
C17_Alphanumeric(cs) ==
    \A i \in DOMAIN cs : cs[i] \in LowerChars \cup UpperChars \cup DigitChars

\* The position in the result of character i of an alphanumeric name: one
\* further for each boundary before it.
C17_Position(cs, i) == i + Cardinality({b \in C17_Boundaries(cs) : b < i})

\* C17: sanitize inserts a hyphen at each camelCase boundary, lowercases,
\* replaces every character outside [a-z0-9-] by a hyphen, collapses hyphen
\* runs and strips leading and trailing hyphens; the four documented examples
\* hold; every result has only [a-z0-9-], no two adjacent hyphens, no leading
\* or trailing hyphen, and sanitizing it again changes nothing.
C17_Sanitize ==
    pc = "returned" =>
        /\ arguments = Chars("PersonType") => Join(returned) = "person-type"
        /\ arguments = Chars("XMLHttpRequest") => Join(returned) = "xmlhttp-request"
        /\ arguments = Chars("Simple Name") => Join(returned) = "simple-name"
        /\ arguments = Chars("Multiple---Hyphens") => Join(returned) = "multiple-hyphens"
        /\ \A i \in DOMAIN returned :
              returned[i] \in LowerChars \cup DigitChars \cup {"-"}
        /\ \A i \in 1..(Len(returned) - 1) :
              ~(returned[i] = "-" /\ returned[i + 1] = "-")
        /\ returned # <<>> => returned[1] # "-" /\ returned[Len(returned)] # "-"
        /\ SanitizeChars(returned) = returned
        /\ C17_Alphanumeric(arguments) =>
              /\ Len(returned) = Len(arguments) + Cardinality(C17_Boundaries(arguments))
              /\ \A i \in DOMAIN arguments :
                    returned[C17_Position(arguments, i)] = LowerChar(arguments[i])
              /\ \A b \in C17_Boundaries(arguments) :
                    returned[C17_Position(arguments, b) + 1] = "-"
        /\ \A i \in DOMAIN returned :
              returned[i] \in LowerChars \cup DigitChars
                 => \E j \in DOMAIN arguments : LowerChar(arguments[j]) = returned[i]

\* A name with a boundary after a digit, a character outside [a-z0-9-] and a
\* trailing hyphen was sanitized.
C17_Witness ==
    /\ pc = "returned"
    /\ arguments = <<"1", "B", "_", "-">>
    /\ returned = <<"1", "-", "b">>

\* ---------------------------------------------------------------------------
\* Converter._generate_output_files.  A path is relative to Config.output_dir.

\* dict.get(key, default)
Get(dict, key, default) == IF key \in DOMAIN dict THEN dict[key] ELSE default

\* dict[key] = value
SetItem(dict, key, value) == (key :> value) @@ dict

\* {k: v for k, v in schema.items() if k != "$id"}
DropId(schema) == [k \in DOMAIN schema \ {"$id"} |-> schema[k]]

\* s.split("/")[-1]
LastSegment(s) ==
    IF Contains(s, "/")
    THEN SubSeq(s, 1 + CHOOSE i \in 1..Len(s) :
                        /\ SubSeq(s, i, i) = "/"
                        /\ ~Contains(SubSeq(s, i + 1, Len(s)), "/"),
                Len(s))
    ELSE s

\* s.replace(old, "")
RECURSIVE Remove(_, _)
Remove(s, old) ==
    IF Len(s) < Len(old) THEN s
    ELSE IF SubSeq(s, 1, Len(old)) = old
         THEN Remove(SubSeq(s, Len(old) + 1, Len(s)), old)
         ELSE SubSeq(s, 1, 1) \o Remove(SubSeq(s, 2, Len(s)), old)

\* The name _generate_single_file_output files a fragment under.
SchemaName(schema) ==
    IF Contains(Get(schema, "$id", "unknown"), "/")
    THEN LastSegment(Get(schema, "$id", "unknown"))
    ELSE Remove(Remove(Get(schema, "title", "Unknown Schema"), " "),
                "Generated JSON Schema for ")

\* The loop of _generate_single_file_output over json_schemas[i..].
RECURSIVE Consolidate(_, _, _)
Consolidate(schemas, i, acc) ==
    IF i > Len(schemas) THEN acc
    ELSE Consolidate(schemas, i + 1,
            [definitions |-> SetItem(acc.definitions, SchemaName(schemas[i]),
                                     DropId(schemas[i])),
             properties |-> SetItem(acc.properties, SchemaName(schemas[i]),
                               "$ref" :> ("#/definitions/" \o SchemaName(schemas[i])))])

\* The synthetic root around the definitions and properties collected.
ConsolidatedRoot(collected) ==
    ("$schema" :> "https://json-schema.org/draft/2020-12/schema")
    @@ ("$id" :> "http://example.com/consolidated")
    @@ ("title" :> "Consolidated JSON Schema")
    @@ ("type" :> "object")
    @@ ("properties" :> collected.properties)
    @@ ("definitions" :> collected.definitions)

\* consolidated_schema with the root built for a single fragment too.
ConsolidatedSchema_AlwaysWrapped(schemas) ==
    ConsolidatedRoot(Consolidate(schemas, 1,
                        [definitions |-> EmptyDict, properties |-> EmptyDict]))

\* consolidated_schema of _generate_single_file_output.
ConsolidatedSchema(schemas) ==
    IF Len(schemas) = 1
    THEN schemas[1]
    ELSE ConsolidatedRoot(Consolidate(schemas, 1,
                             [definitions |-> EmptyDict, properties |-> EmptyDict]))

\* _generate_single_file_output: the directory written and the list returned.
GenerateSingleFileOutput(schemas) ==
    [files |-> "schema.json" :> ConsolidatedSchema(schemas),
     output_files |-> <<"schema.json">>]

\* The three lists _generate_multi_file_output sorts the fragments into.
IsElementSchema(schema) == Contains(Get(schema, "$id", "unknown"), "elements/")

IsComplexSchema(schema) ==
    /\ ~IsElementSchema(schema)
    /\ Get(schema, "type", "object") = "object"
    /\ Contains(Get(schema, "title", "Unknown"), "Generated JSON Schema for")

IsSimpleSchema(schema) == ~IsElementSchema(schema) /\ ~IsComplexSchema(schema)

\* Converter._extract_type_name
ExtractTypeName(schema) ==
    IF Contains(Get(schema, "title", ""), "Generated JSON Schema for")
    THEN Remove(Get(schema, "title", ""), "Generated JSON Schema for ")
    ELSE IF Contains(Get(schema, "$id", ""), "/")
         THEN LastSegment(Get(schema, "$id", ""))
         ELSE "UnknownType"

\* types_dir / filename
TypeFile(type_name) == "types/" \o SanitizeFilename(type_name) \o ".json"

\* individual_schema of one type fragment.
IndividualSchema(schema) ==
    SetItem(DropId(schema), "$id",
            "http://example.com/types/" \o ExtractTypeName(schema))

\* One entry of file_catalog.
CatalogEntry(schema) ==
    [filename |-> SanitizeFilename(ExtractTypeName(schema)) \o ".json",
     type_name |-> ExtractTypeName(schema),
     description |-> Get(IndividualSchema(schema), "description",
                         "No description available"),
     schema_type |-> Get(IndividualSchema(schema), "type", "unknown")]

\* The loop of _generate_multi_file_output over schemas[i..].
RECURSIVE WriteTypeFiles(_, _, _)
WriteTypeFiles(schemas, i, acc) ==
    IF i > Len(schemas) THEN acc
    ELSE WriteTypeFiles(schemas, i + 1,
            [files |-> SetItem(acc.files, TypeFile(ExtractTypeName(schemas[i])),
                               IndividualSchema(schemas[i])),
             output_files |-> Append(acc.output_files,
                                     TypeFile(ExtractTypeName(schemas[i]))),
             master_properties |->
                 SetItem(acc.master_properties, ExtractTypeName(schemas[i]),
                         "$ref" :> ("types/" \o SanitizeFilename(ExtractTypeName(schemas[i]))
                                             \o ".json")),
             file_catalog |-> Append(acc.file_catalog, CatalogEntry(schemas[i]))])

\* self.config.input_file.name
InputFileName == "schema.xsd"

\* master_schema
MasterSchema(master_properties) ==
    ("$schema" :> "https://json-schema.org/draft/2020-12/schema")
    @@ ("$id" :> "http://example.com/master")
    @@ ("title" :> "Master Schema")
    @@ ("description" :>
          ("Master schema with references to individual type definitions. Generated from "
           \o InputFileName))
    @@ ("type" :> "object")
    @@ ("properties" :> master_properties)

\* The master file and the catalog written after the type files; the catalog
\* file holds the rendering of file_catalog.
FinishMultiFileOutput(written) ==
    [files |-> SetItem(SetItem(written.files, "schema.json",
                               MasterSchema(written.master_properties)),
                       "README.md", [catalog |-> written.file_catalog]),
     output_files |-> written.output_files \o <<"schema.json", "README.md">>]

\* _generate_multi_file_output
GenerateMultiFileOutput(schemas) ==
    FinishMultiFileOutput(
        WriteTypeFiles(SelectSeq(schemas, IsComplexSchema)
                          \o SelectSeq(schemas, IsSimpleSchema),
                       1,
                       [files |-> EmptyDict, output_files |-> <<>>,
                        master_properties |-> EmptyDict, file_catalog |-> <<>>]))

\* _generate_output_files
GenerateOutputFiles(schemas, mode) ==
    IF mode = "single"
    THEN GenerateSingleFileOutput(schemas)
    ELSE GenerateMultiFileOutput(schemas)

\* ---------------------------------------------------------------------------
\* SpecOutput: a schema of named types and top-level elements is built,
\* transformed, and its fragments are written in either output mode.

OutputModes == {"single", "multi"}

\* Target namespaces of the schemas written: none, the inheritance example's,
\* and the Dublin Core element set's.
OutputNamespaces == Namespaces \cup {"http://purl.org/dc/elements/1.1/"}

OutputTypeNames == {"PersonType", "Person_Type", "Address", "Type1"}

\* A named complex type without content and a named simple type restricting
\* xs:string.
OutputTypes ==
    {ComplexType(n) : n \in OutputTypeNames}
    \cup {[SimpleType(n) EXCEPT !.primitive_type = "string"] : n \in OutputTypeNames}

\* Top-level elements; an element may bear the name of a type.
OutputElements ==
    {Element(n, PersonType, ElementOccurrence(1, 1), <<>>) : n \in {"root", "PersonType"}}

InitOutput ==
    /\ types = <<>>
    /\ elements = <<>>
    /\ attr_style = "properties"
    /\ target_namespace \in OutputNamespaces
    /\ json_schemas = <<>>
    /\ particle = None
    /\ properties = EmptyDict
    /\ required_elements = <<>>
    /\ pc = "model"
    /\ NoCall
    /\ output_mode \in OutputModes
    /\ files = EmptyDict
    /\ output_files = <<>>
    /\ source = <<>>
    /\ faults = {}
    /\ llm_optimized = FALSE
    /\ success = FALSE
    /\ errors = <<>>

\* Schema.add_type: types is a dict keyed by name.
AddType(xsd_type) ==
    /\ pc = "model"
    /\ Len(types) < MaxOutputTypes
    /\ xsd_type.name \notin TypeNamesOf(types)
    /\ types' = Append(types, xsd_type)
    /\ UNCHANGED <<elements, attr_style, target_namespace, json_schemas,
                   particle, properties, required_elements, pc>>
    /\ UNCHANGED <<call_vars, run_vars>>

\* output_files = self._generate_output_files(json_schemas)
WriteOutput ==
    /\ pc = "transformed"
    /\ files' = GenerateOutputFiles(json_schemas, output_mode).files
    /\ output_files' = GenerateOutputFiles(json_schemas, output_mode).output_files
    /\ pc' = "written"
    /\ UNCHANGED <<types, elements, attr_style, target_namespace, json_schemas,
                   particle, properties, required_elements, call_vars>>
    /\ UNCHANGED <<output_mode, source, faults, llm_optimized, success, errors>>

NextOutput ==
    \/ \E xsd_type \in OutputTypes : AddType(xsd_type)
    \/ \E element \in OutputElements : AddElement(element)
    \/ Transform
    \/ WriteOutput

SpecOutput == InitOutput /\ [][NextOutput]_vars

\* The title prefix of a type's fragment.
TypeTitle == "Generated JSON Schema for "

\* fragment is the fragment of a named type.
IsTypeFragment(fragment) ==
    /\ "title" \in DOMAIN fragment
    /\ Len(fragment.title) > Len(TypeTitle)
    /\ SubSeq(fragment.title, 1, Len(TypeTitle)) = TypeTitle

\* The type name in the title of a type's fragment.
TypeNameOf(fragment) ==
    SubSeq(fragment.title, Len(TypeTitle) + 1, Len(fragment.title))

\* The positions of the type fragments among json_schemas.
TypeFragments == {i \in DOMAIN json_schemas : IsTypeFragment(json_schemas[i])}

\* C13: in single-file mode with exactly one fragment the emitted document is
\* that fragment unmodified: same keys and values, its own $id, no wrapping
\* root, no definitions, no added properties.
C13_SingleFragment ==
    (pc = "written" /\ output_mode = "single" /\ Len(json_schemas) = 1) =>
        /\ DOMAIN files = {"schema.json"}
        /\ output_files = <<"schema.json">>
        /\ files["schema.json"] = json_schemas[1]
        /\ DOMAIN files["schema.json"] = DOMAIN json_schemas[1]
        /\ files["schema.json"]["$id"] = json_schemas[1]["$id"]
        /\ files["schema.json"]["$id"] # "http://example.com/consolidated"
        /\ "definitions" \notin DOMAIN files["schema.json"]
        /\ files["schema.json"].title # "Consolidated JSON Schema"

\* The only fragment, that of type PersonType of a schema with a target
\* namespace, was written in single-file mode.
C13_Witness ==
    /\ pc = "written"
    /\ output_mode = "single"
    /\ Len(json_schemas) = 1
    /\ Len(types) = 1
    /\ types[1].name = "PersonType"
    /\ target_namespace = "http://example.com/inheritance"
    /\ files["schema.json"]["$id"] = "http://example.com/inheritance/PersonType"

\* C14: in single-file mode with two or more fragments the emitted document
\* has title "Consolidated JSON Schema" and $id
\* "http://example.com/consolidated", and for every fragment of a type N
\* definitions[N] is the fragment without its $id and properties[N] is
\* {$ref: "#/definitions/N"}.
C14_Consolidated ==
    (pc = "written" /\ output_mode = "single" /\ Len(json_schemas) >= 2) =>
        /\ files["schema.json"].title = "Consolidated JSON Schema"
        /\ files["schema.json"]["$id"] = "http://example.com/consolidated"
        /\ \A i \in TypeFragments :
              /\ TypeNameOf(json_schemas[i]) \in DOMAIN files["schema.json"].definitions
              /\ files["schema.json"].definitions[TypeNameOf(json_schemas[i])]
                    = WithoutKey(json_schemas[i], "$id")
              /\ TypeNameOf(json_schemas[i]) \in DOMAIN files["schema.json"].properties
              /\ files["schema.json"].properties[TypeNameOf(json_schemas[i])]
                    = ("$ref" :> ("#/definitions/" \o TypeNameOf(json_schemas[i])))

\* The type fragments in the order of the returned list: complex before
\* simple, each group in fragment order.
TypeFragmentsInFileOrder ==
    SelectSeq(json_schemas,
              LAMBDA f : IsTypeFragment(f) /\ Get(f, "type", "object") = "object")
    \o SelectSeq(json_schemas,
                 LAMBDA f : IsTypeFragment(f) /\ Get(f, "type", "object") # "object")

\* C15: in multi-file mode every type fragment N has its file
\* types/<sanitize(N)>.json and its entry properties[N] = {$ref:
\* "types/<sanitize(N)>.json"} in the master document schema.json, whose $id
\* is "http://example.com/master"; element fragments get no file and no
\* master entry; the returned list is the type files in fragment order,
\* complex before simple, then schema.json, then README.md, so its length is
\* the number of type fragments plus 2.  (Stated for a schema that has a
\* type or an element.)
C15_MultiFile ==
    (pc = "written" /\ output_mode = "multi" /\ types \o elements # <<>>) =>
        /\ files["schema.json"]["$id"] = "http://example.com/master"
        /\ \A i \in TypeFragments :
              /\ ("types/" \o SanitizeFilename(TypeNameOf(json_schemas[i])) \o ".json")
                    \in DOMAIN files
              /\ TypeNameOf(json_schemas[i]) \in DOMAIN files["schema.json"].properties
              /\ files["schema.json"].properties[TypeNameOf(json_schemas[i])]
                    = ("$ref" :> ("types/" \o SanitizeFilename(TypeNameOf(json_schemas[i]))
                                           \o ".json"))
        /\ DOMAIN files["schema.json"].properties
              = {TypeNameOf(json_schemas[i]) : i \in TypeFragments}
        /\ DOMAIN files
              = {"types/" \o SanitizeFilename(TypeNameOf(json_schemas[i])) \o ".json" :
                    i \in TypeFragments} \cup {"schema.json", "README.md"}
        /\ output_files
              = [i \in DOMAIN TypeFragmentsInFileOrder |->
                    "types/" \o SanitizeFilename(TypeNameOf(TypeFragmentsInFileOrder[i]))
                             \o ".json"]
                \o <<"schema.json", "README.md">>
        /\ Len(output_files) = Cardinality(TypeFragments) + 2

\* C16: output naming is collision-free: two fragments with distinct type
\* names go to distinct files in multi-file mode and under distinct
\* definitions keys in single-file mode, and each is found there after the
\* run, none overwritten by the other.
C16_CollisionFree ==
    pc = "written" =>
        \A i, j \in TypeFragments :
            TypeNameOf(json_schemas[i]) # TypeNameOf(json_schemas[j]) =>
                /\ output_mode = "multi" =>
                      /\ SanitizeFilename(TypeNameOf(json_schemas[i]))
                            # SanitizeFilename(TypeNameOf(json_schemas[j]))
                      /\ \A k \in {i, j} :
                            \E f \in DOMAIN files :
                               /\ "title" \in DOMAIN files[f]
                               /\ files[f].title = json_schemas[k].title
                /\ output_mode = "single" =>
                      \A k \in {i, j} :
                         /\ TypeNameOf(json_schemas[k])
                               \in DOMAIN files["schema.json"].definitions
                         /\ \E key \in DOMAIN files["schema.json"].definitions :
                               files["schema.json"].definitions[key].title
                                  = json_schemas[k].title

\* The per-type documents written: the files under types/.
TypeDocuments == {f \in DOMAIN files : Len(f) > 6 /\ SubSeq(f, 1, 6) = "types/"}

\* C18: in multi-file mode the $id of the per-type document of type N is
\* "<namespace>/types/N" for the schema's target namespace, and
\* "http://example.com/types/N" only when the schema has none.
C18_TypeDocumentId ==
    (pc = "written" /\ output_mode = "multi") =>
        \A f \in TypeDocuments :
            IsTypeFragment(files[f]) =>
                files[f]["$id"]
                   = (IF target_namespace # "" THEN target_namespace
                                                ELSE "http://example.com")
                     \o "/types/" \o TypeNameOf(files[f])

\* ---------------------------------------------------------------------------
\* SpecConvert: one run of Converter.convert, step by step, on an input file
\* and in an environment where chosen steps fail.

\* The named types of the input file, in document order.
SourceTypes ==
    << ComplexType("PersonType"),
       [SimpleType("Address") EXCEPT !.primitive_type = "string"],
       ComplexType("Type1") >>

\* The input files: the first n named types.
Sources ==
    {SubSeq(SourceTypes, 1, n) :
        n \in 0..(IF MaxOutputTypes < Len(SourceTypes)
                  THEN MaxOutputTypes ELSE Len(SourceTypes))}

\* A step that fails: "exists" - the input file is missing; "parse" - the
\* schema library rejects the file; "convert" - building the object model of
\* the named type raises; "map" - mapping the named type to its fragment
\* raises; "optimize" - an optimization raises; "write" - writing the output
\* raises.
Fault(step, item) == [step |-> step, item |-> item]

FaultsOf(file_types) ==
    {Fault(step, "") : step \in {"exists", "parse", "optimize", "write"}}
    \cup {Fault(step, file_types[i].name) :
             step \in {"convert", "map"}, i \in DOMAIN file_types}

\* The exception a failing step raises.
Raised(step, item) ==
    [class |-> CASE step = "map" -> "AttributeError"
                 [] step = "optimize" -> "KeyError"
                 [] OTHER -> "OSError",
     message |-> step \o " " \o item]

\* except Exception: every exception the steps raise is an Exception.
Handles_OSErrorOnly(exception) == exception.class = "OSError"

Handles(exception) ==
    exception.class \in {"AttributeError", "KeyError", "OSError"}

InitConvert ==
    /\ types = <<>>
    /\ elements = <<>>
    /\ attr_style = "properties"
    /\ target_namespace = ""
    /\ json_schemas = <<>>
    /\ particle = None
    /\ properties = EmptyDict
    /\ required_elements = <<>>
    /\ pc = "start"
    /\ NoCall
    /\ output_mode \in OutputModes
    /\ files = EmptyDict
    /\ output_files = <<>>
    /\ source \in Sources
    /\ faults \in SUBSET FaultsOf(source)
    /\ llm_optimized \in BOOLEAN
    /\ success = FALSE
    /\ errors = <<>>

\* XSDParser._convert_types: a type whose conversion raises is logged and
\* left out.
ConvertTypes(file_types) ==
    SelectSeq(file_types, LAMBDA t : Fault("convert", t.name) \notin faults)

\* Step 1: schema_model = self._load_and_parse_xsd(); None ends the run with
\* one error.
Load ==
    /\ pc = "start"
    /\ IF Fault("exists", "") \in faults \/ Fault("parse", "") \in faults
       THEN /\ errors' = Append(errors, "Failed to load or parse XSD schema")
            /\ pc' = "returned"
            /\ UNCHANGED types
       ELSE /\ types' = ConvertTypes(source)
            /\ pc' = "loaded"
            /\ UNCHANGED errors
    /\ UNCHANGED <<elements, attr_style, target_namespace, json_schemas,
                   particle, properties, required_elements, call_vars>>
    /\ UNCHANGED <<output_mode, files, output_files, source, faults,
                   llm_optimized, success>>

\* Step 2: json_schemas = self._transform_to_json(schema_model); the loop
\* over the types has no handler, so the first type whose mapping raises ends
\* it.
TransformModel ==
    /\ pc = "loaded"
    /\ IF \E i \in DOMAIN types : Fault("map", types[i].name) \in faults
       THEN /\ returned' = Raised("map",
                              types[CHOOSE i \in DOMAIN types :
                                       /\ Fault("map", types[i].name) \in faults
                                       /\ \A k \in 1..(i - 1) :
                                             Fault("map", types[k].name) \notin faults].name)
            /\ pc' = "raised"
            /\ UNCHANGED <<json_schemas, errors>>
       ELSE /\ json_schemas' = TransformToJson(types, elements, target_namespace,
                                               attr_style)
            /\ IF json_schemas' = <<>>
               THEN /\ errors' = Append(errors, "Failed to transform XSD to JSON Schema")
                    /\ pc' = "returned"
               ELSE /\ pc' = "transformed"
                    /\ UNCHANGED errors
            /\ UNCHANGED returned
    /\ UNCHANGED <<types, elements, attr_style, target_namespace,
                   particle, properties, required_elements, arguments>>
    /\ UNCHANGED <<output_mode, files, output_files, source, faults,
                   llm_optimized, success>>

\* Step 3: _apply_llm_optimizations when Config.llm_optimized; the
\* optimizations only log and return the fragments as they are.
Optimize ==
    /\ pc = "transformed"
    /\ IF llm_optimized /\ Fault("optimize", "") \in faults
       THEN /\ returned' = Raised("optimize", "")
            /\ pc' = "raised"
       ELSE /\ pc' = "optimized"
            /\ UNCHANGED returned
    /\ UNCHANGED <<types, elements, attr_style, target_namespace, json_schemas,
                   particle, properties, required_elements, arguments, run_vars>>

\* Step 4: output_files = self._generate_output_files(json_schemas)
Write ==
    /\ pc = "optimized"
    /\ IF Fault("write", "") \in faults
       THEN /\ returned' = Raised("write", "")
            /\ pc' = "raised"
            /\ UNCHANGED <<files, output_files>>
       ELSE /\ files' = GenerateOutputFiles(json_schemas, output_mode).files
            /\ output_files' = GenerateOutputFiles(json_schemas, output_mode).output_files
            /\ pc' = "written"
            /\ UNCHANGED returned
    /\ UNCHANGED <<types, elements, attr_style, target_namespace, json_schemas,
                   particle, properties, required_elements, arguments>>
    /\ UNCHANGED <<output_mode, source, faults, llm_optimized, success, errors>>

\* return self._create_result(True, output_files, ...)
ReturnSuccess ==
    /\ pc = "written"
    /\ success' = TRUE
    /\ pc' = "returned"
    /\ UNCHANGED <<types, elements, attr_style, target_namespace, json_schemas,
                   particle, properties, required_elements, call_vars>>
    /\ UNCHANGED <<output_mode, files, output_files, source, faults,
                   llm_optimized, errors>>

\* except Exception as e: one error, a failure result; an exception the
\* clause does not name leaves convert.
Catch ==
    /\ pc = "raised"
    /\ IF Handles(returned)
       THEN /\ errors' = Append(errors, "Conversion failed: " \o returned.message)
            /\ pc' = "returned"
       ELSE /\ pc' = "escaped"
            /\ UNCHANGED errors
    /\ UNCHANGED <<types, elements, attr_style, target_namespace, json_schemas,
                   particle, properties, required_elements, call_vars>>
    /\ UNCHANGED <<output_mode, files, output_files, source, faults,
                   llm_optimized, success>>

NextConvert ==
    \/ Load
    \/ TransformModel
    \/ Optimize
    \/ Write
    \/ ReturnSuccess
    \/ Catch

SpecConvert == InitConvert /\ [][NextConvert]_vars

\* A step of the run failed: the file is missing or rejected, the mapping of
\* a type of the object model raises, an enabled optimization raises, or the
\* writing raises.  (A type whose conversion raises in the parser is left
\* out of the object model; this is not a failure of the loading step.)
C19_FailureOccurs ==
    \/ Fault("exists", "") \in faults
    \/ Fault("parse", "") \in faults
    \/ \E i \in DOMAIN source :
          /\ Fault("convert", source[i].name) \notin faults
          /\ Fault("map", source[i].name) \in faults
    \/ llm_optimized /\ Fault("optimize", "") \in faults
    \/ Fault("write", "") \in faults

\* C19: convert never lets an exception escape; whatever fails during
\* loading, mapping, optimization or writing, it returns a result, with
\* success false and exactly one error when a step failed and success true
\* and no error otherwise, so success holds iff errors is empty.
C19_NoEscape ==
    /\ pc # "escaped"
    /\ pc = "returned" =>
          /\ success <=> errors = <<>>
          /\ C19_FailureOccurs => ~success /\ Len(errors) = 1
          /\ ~C19_FailureOccurs => success /\ errors = <<>>
    /\ pc # "returned" => ~success /\ errors = <<>>

\* The mapping of a type raised and convert returned a failure result with
\* the one error of its handler.
C19_Witness ==
    /\ pc = "returned"
    /\ Fault("map", "PersonType") \in faults
    /\ Cardinality(faults) = 1
    /\ ~success
    /\ errors = <<"Conversion failed: map PersonType">>

\* The named types of the file whose conversion or mapping raises.
C20_FailingTypes ==
    {source[i].name : i \in {k \in DOMAIN source :
        Fault("convert", source[k].name) \in faults
           \/ Fault("map", source[k].name) \in faults}}

\* C20: when converting a named type raises, in the parser or in the mapper,
\* the type is skipped, every other named type still yields its fragment, and
\* the run ends with success and a partial output set.  (Stated for runs in
\* which no other step fails.)
C20_PerItemRecovery ==
    (/\ pc = "returned"
     /\ C20_FailingTypes # {}
     /\ \A f \in faults : f.step \in {"convert", "map"}) =>
        /\ success
        /\ errors = <<>>
        /\ output_files # <<>>
        /\ \A i \in DOMAIN source :
              source[i].name \notin C20_FailingTypes =>
                 \E k \in DOMAIN json_schemas :
                    /\ IsTypeFragment(json_schemas[k])
                    /\ TypeNameOf(json_schemas[k]) = source[i].name
        /\ \A k \in DOMAIN json_schemas :
              IsTypeFragment(json_schemas[k]) =>
                 TypeNameOf(json_schemas[k]) \notin C20_FailingTypes

\* ---------------------------------------------------------------------------
\* SpecWrite: the writes of _generate_multi_file_output one file at a time,
\* each of which may fail, under the handler of Converter.convert.

\* One file per type fragment, in the order of the loop.
TypeWrites(schemas) ==
    [i \in DOMAIN schemas |->
        [path |-> TypeFile(ExtractTypeName(schemas[i])),
         document |-> IndividualSchema(schemas[i])]]

\* The master file and the catalog, written after the type files.
LastWrites(written) ==
    << [path |-> "schema.json", document |-> MasterSchema(written.master_properties)],
       [path |-> "README.md", document |-> [catalog |-> written.file_catalog]] >>

\* The writes of _generate_multi_file_output in order.
MultiFileWrites(schemas) ==
    TypeWrites(SelectSeq(schemas, IsComplexSchema) \o SelectSeq(schemas, IsSimpleSchema))
    \o LastWrites(WriteTypeFiles(SelectSeq(schemas, IsComplexSchema)
                                    \o SelectSeq(schemas, IsSimpleSchema),
                                 1,
                                 [files |-> EmptyDict, output_files |-> <<>>,
                                  master_properties |-> EmptyDict,
                                  file_catalog |-> <<>>]))

\* What open(path, 'w') followed by an interrupted json.dump leaves in a
\* file: a prefix of the document's text.
Partial == [partial |-> TRUE]

InitWrite ==
    /\ types = <<>>
    /\ elements = <<>>
    /\ attr_style = "properties"
    /\ target_namespace = ""
    /\ json_schemas = <<>>
    /\ particle = None
    /\ properties = EmptyDict
    /\ required_elements = <<>>
    /\ pc = "model"
    /\ NoCall
    /\ output_mode = "multi"
    /\ files = EmptyDict
    /\ output_files = <<>>
    /\ source = <<>>
    /\ faults = {}
    /\ llm_optimized = FALSE
    /\ success = FALSE
    /\ errors = <<>>

\* _generate_multi_file_output is entered: the directories are made and the
\* fragments sorted; no file is written yet.  Its local state is the writes
\* it is to make and the number made so far.
BeginWrites ==
    /\ pc = "transformed"
    /\ arguments' = [written |-> 0, writes |-> MultiFileWrites(json_schemas)]
    /\ pc' = "writing"
    /\ UNCHANGED <<types, elements, attr_style, target_namespace, json_schemas,
                   particle, properties, required_elements, returned, run_vars>>

\* with open(...) as f: json.dump(...) (f.write for the catalog) succeeds;
\* after the last write the list of files is returned.
WriteFile ==
    /\ pc = "writing"
    /\ files' = SetItem(files,
                        arguments.writes[arguments.written + 1].path,
                        arguments.writes[arguments.written + 1].document)
    /\ arguments' = [arguments EXCEPT !.written = @ + 1]
    /\ IF arguments.written + 1 = Len(arguments.writes)
       THEN /\ output_files' = [i \in DOMAIN arguments.writes |->
                                   arguments.writes[i].path]
            /\ pc' = "written"
       ELSE UNCHANGED <<output_files, pc>>
    /\ UNCHANGED <<types, elements, attr_style, target_namespace, json_schemas,
                   particle, properties, required_elements, returned>>
    /\ UNCHANGED <<output_mode, source, faults, llm_optimized, success, errors>>

\* open(path, 'w') raises: nothing is written.
FailOpen ==
    /\ pc = "writing"
    /\ returned' = Raised("write",
                          arguments.writes[arguments.written + 1].path)
    /\ pc' = "raised"
    /\ UNCHANGED <<types, elements, attr_style, target_namespace, json_schemas,
                   particle, properties, required_elements, arguments, run_vars>>

\* open(path, 'w') creates or truncates the file, then json.dump (f.write)
\* raises part-way.
FailDump ==
    /\ pc = "writing"
    /\ files' = SetItem(files,
                        arguments.writes[arguments.written + 1].path,
                        Partial)
    /\ returned' = Raised("write",
                          arguments.writes[arguments.written + 1].path)
    /\ pc' = "raised"
    /\ UNCHANGED <<types, elements, attr_style, target_namespace, json_schemas,
                   particle, properties, required_elements, arguments>>
    /\ UNCHANGED <<output_mode, output_files, source, faults, llm_optimized,
                   success, errors>>

NextWrite ==
    \/ \E xsd_type \in OutputTypes : AddType(xsd_type)
    \/ \E element \in OutputElements : AddElement(element)
    \/ Transform
    \/ BeginWrites
    \/ WriteFile
    \/ FailOpen
    \/ FailDump
    \/ ReturnSuccess
    \/ Catch

SpecWrite == InitWrite /\ [][NextWrite]_vars

\* The write of a file has failed: the k-th, k = arguments.written + 1.
C21_Failed ==
    \/ pc = "raised"
    \/ pc = "returned" /\ arguments.written < Len(MultiFileWrites(json_schemas))

\* After a failed write no later file is on disk, and the run returns a
\* failure reporting the error.
C21_NoLaterWrite ==
    (pc \in {"raised", "returned"} /\ C21_Failed) =>
        /\ \A i \in (arguments.written + 2)..Len(MultiFileWrites(json_schemas)) :
              MultiFileWrites(json_schemas)[i].path \in DOMAIN files =>
                 \E j \in 1..(arguments.written + 1) :
                    MultiFileWrites(json_schemas)[j].path
                       = MultiFileWrites(json_schemas)[i].path
        /\ arguments.written + 1 <= Len(MultiFileWrites(json_schemas)) - 2 =>
              "schema.json" \notin DOMAIN files /\ "README.md" \notin DOMAIN files
        /\ pc = "returned" =>
              /\ ~success
              /\ Len(errors) = 1
              /\ Contains(errors[1], returned.message)

\* A failing write and the handler leave every file already written as it
\* was.
C21_NoRollbackNoDamage ==
    pc' \in {"raised", "returned"} /\ pc \in {"writing", "raised"} =>
        \A f \in DOMAIN files : f \in DOMAIN files' /\ files'[f] = files[f]

\* C21: in multi-file mode, if the write of the k-th file fails, no later
\* file is written (neither the master nor the catalog when a type file
\* fails), the k-1 files already written stay on disk unchanged, and convert
\* returns a failure result reporting the error.
C21_FailFast == []C21_NoLaterWrite /\ [][C21_NoRollbackNoDamage]_vars

\* ---------------------------------------------------------------------------
\* The missing input file.

\* C22: convert() on a configuration whose input file does not exist returns
\* success False with a non-empty error list whose first message contains
\* "does not exist", and writes no output file.
C22_MissingFile ==
    (pc = "returned" /\ Fault("exists", "") \in faults) =>
        /\ ~success
        /\ errors # <<>>
        /\ Contains(errors[1], "does not exist")
        /\ files = EmptyDict
        /\ output_files = <<>>

\* ---------------------------------------------------------------------------
\* Sequences of SimpleType.add_facet calls on one simple type.

\* The most add_facet calls made on the simple type.
MaxFacets == 4

\* The state after SimpleType("ColorType"); arguments is the log of the calls
\* made so far.
InitFacets ==
    /\ types = <<SimpleType("ColorType")>>
    /\ elements = <<>>
    /\ attr_style = "properties"
    /\ target_namespace = ""
    /\ json_schemas = <<>>
    /\ particle = None
    /\ properties = EmptyDict
    /\ required_elements = <<>>
    /\ pc = "facets"
    /\ arguments = <<>>
    /\ returned = None
    /\ NoRun

\* simple_type.add_facet(name, value), as XSDParser._convert_simple_type and
\* the tests call it.
CallAddFacet(facet) ==
    /\ pc = "facets"
    /\ Len(arguments) < MaxFacets
    /\ types' = [types EXCEPT ![1] = add_facet(@, facet.name, facet.value)]
    /\ arguments' = Append(arguments, facet)
    /\ UNCHANGED <<elements, attr_style, target_namespace, json_schemas,
                   particle, properties, required_elements, pc, returned,
                   run_vars>>

NextFacets == \E facet \in Facets : CallAddFacet(facet)

SpecFacets == InitFacets /\ [][NextFacets]_vars

\* The enumeration values carried by a log of calls: one entry per value of
\* each facet named enumeration, in call order.
RECURSIVE C23_EnumerationValues(_)
C23_EnumerationValues(calls) ==
    IF calls = <<>> THEN <<>>
    ELSE (IF Head(calls).name # "enumeration" THEN <<>>
          ELSE IF "list" \in DOMAIN Head(calls).value
               THEN Head(calls).value.list
               ELSE <<Head(calls).value.scalar>>)
         \o C23_EnumerationValues(Tail(calls))

\* C23: after any sequence of add_facet calls, facets holds every added
\* facet in call order and enumeration_values is the sequence of the values
\* of the facets named enumeration, one entry per value, in insertion order
\* with duplicates kept; a facet of another name leaves it unchanged.
C23_FacetsAndValues ==
    pc = "facets" =>
        /\ types[1].facets = arguments
        /\ types[1].enumeration_values = C23_EnumerationValues(arguments)

\* ---------------------------------------------------------------------------
\* Type.derivation_chain, one loop iteration per step.

\* The longest chain the loop builds; on cyclic base_type links the loop of
\* the code never ends, and the walk of the model stops here.
MaxChain == 4

\* chain.append(current), with the order reversed: base first.
ChainAppend_BaseFirst(chain, current) == <<current>> \o chain

\* chain.append(current)
ChainAppend(chain, current) == Append(chain, current)

\* The base_type links of the named types: every type has no base or any of
\* the named types as its base, cycles included.
ChainedTypes ==
    {[i \in DOMAIN TypeNames |->
         [ComplexType(TypeNames[i]) EXCEPT
             !.base_type = bases[i],
             !.derivation_method = IF bases[i] = "" THEN "" ELSE "extension"]] :
       bases \in [DOMAIN TypeNames -> {""} \cup Range(TypeNames)]}

InitChain ==
    /\ types \in ChainedTypes
    /\ elements = <<>>
    /\ attr_style = "properties"
    /\ target_namespace = ""
    /\ json_schemas = <<>>
    /\ particle = None
    /\ properties = EmptyDict
    /\ required_elements = <<>>
    /\ pc = "model"
    /\ NoCall
    /\ NoRun

\* xsd_type.derivation_chain is read: chain = [], current = self.
EnterDerivationChain(i) ==
    /\ pc = "model"
    /\ arguments' = [self |-> types[i], current |-> types[i], chain |-> <<>>]
    /\ pc' = "walking"
    /\ UNCHANGED <<types, elements, attr_style, target_namespace, json_schemas,
                   particle, properties, required_elements, returned, run_vars>>

\* One iteration of `while current:`; a Type object is always true, None is
\* false.
WalkChain ==
    /\ pc = "walking"
    /\ arguments.current # None
    /\ Len(arguments.chain) < MaxChain
    /\ arguments' = [arguments EXCEPT
                        !.chain = ChainAppend(@, arguments.current),
                        !.current = BaseOf(arguments.current, types)]
    /\ UNCHANGED <<types, elements, attr_style, target_namespace, json_schemas,
                   particle, properties, required_elements, pc, returned,
                   run_vars>>

\* The loop ends and the chain is returned.
ReturnChain ==
    /\ pc = "walking"
    /\ arguments.current = None
    /\ returned' = arguments.chain
    /\ pc' = "returned"
    /\ UNCHANGED <<types, elements, attr_style, target_namespace, json_schemas,
                   particle, properties, required_elements, arguments, run_vars>>

NextChain ==
    \/ \E i \in DOMAIN types : EnterDerivationChain(i)
    \/ WalkChain
    \/ ReturnChain

SpecChain == InitChain /\ [][NextChain]_vars

\* The property getter runs to its end once entered.
SpecChainLive == SpecChain /\ WF_vars(WalkChain) /\ WF_vars(ReturnChain)

\* The type n base_type links above t, None when the links end before.
RECURSIVE C24_BaseAfter(_, _)
C24_BaseAfter(t, n) ==
    IF n = 0 \/ t = None THEN t
    ELSE C24_BaseAfter(BaseOf(t, types), n - 1)

\* The base_type links from t are acyclic: they end within as many links as
\* there are types.
C24_Acyclic(t) == C24_BaseAfter(t, Len(types)) = None

\* The number of ancestors of t, for acyclic links.
C24_AncestorCount(t) ==
    Cardinality({n \in 1..Len(types) : C24_BaseAfter(t, n) # None})

\* The returned chain is self, its base, its base's base, ... up to the type
\* without a base.
C24_ChainShape ==
    (pc = "returned" /\ C24_Acyclic(arguments.self)) =>
        /\ Len(returned) = C24_AncestorCount(arguments.self) + 1
        /\ returned[1] = arguments.self
        /\ \A k \in 1..(Len(returned) - 1) :
              returned[k + 1] = BaseOf(returned[k], types)
        /\ BaseOf(returned[Len(returned)], types) = None
        /\ arguments.self.base_type = "" => returned = <<arguments.self>>

LLMOptimizations ==
    [simplify |-> FALSE, add_metadata |-> FALSE, flatten |-> FALSE,
     natural_naming |-> FALSE, embed_docs |-> FALSE]

LoggingConfig == [level |-> "INFO", format |-> "json", destination |-> "stdout"]

SerializerConfig == [format |-> "json", pretty |-> TRUE, split_by_namespace |-> FALSE]

Config ==
    [input_file |-> "", output_dir |-> "", output_mode |-> "single",
     attr_style |-> "prefix", llm_optimized |-> FALSE, llm |-> LLMOptimizations,
     logging |-> LoggingConfig, serializer |-> SerializerConfig,
     diagnose |-> FALSE]

\* kwargs.get(key, default)
KwargsGet(kwargs, key, default) ==
    IF key \in DOMAIN kwargs THEN kwargs[key] ELSE default

\* The keys of llm_flags.
LlmFlagNames == {"simplify", "add_metadata", "flatten", "natural_naming", "embed_docs"}

\* LogLevel(value): the member whose value is `value`.
LogLevel(value) ==
    CASE value = "debug" -> "DEBUG"
      [] value = "info" -> "INFO"
      [] value = "warn" -> "WARN"
      [] value = "error" -> "ERROR"

\* Config.from_cli_args(**kwargs).  Every keyword given here has a value other
\* than None, as every keyword cli.main passes has.
from_cli_args(kwargs) ==
    LET updated == [key \in DOMAIN Config |->
                       IF key \in DOMAIN kwargs THEN kwargs[key] ELSE Config[key]]
        llm_flags == [flag \in LlmFlagNames |-> KwargsGet(kwargs, flag, FALSE)]
        with_llm == IF \E flag \in LlmFlagNames : llm_flags[flag]
                    THEN [updated EXCEPT
                             !.llm_optimized = TRUE,
                             !.llm = [flag \in LlmFlagNames |-> llm_flags[flag]]]
                    ELSE updated
    IN  IF "log_level" \in DOMAIN kwargs
        THEN [with_llm EXCEPT !.logging.level = LogLevel(kwargs["log_level"])]
        ELSE with_llm

\* A keyword that is absent or has one of the values.
OptionalKeyword(key, values) == {EmptyDict} \cup {(key :> value) : value \in values}

\* The keyword arguments of the calls: those of cli.main and of the tests.
CliArguments ==
    {pretty @@ mode @@ level @@ optimized @@ simplify @@ flatten :
        pretty \in OptionalKeyword("pretty", BOOLEAN),
        mode \in OptionalKeyword("output_mode", OutputModes),
        level \in OptionalKeyword("log_level", {"debug", "error"}),
        optimized \in OptionalKeyword("llm_optimized", {TRUE}),
        simplify \in OptionalKeyword("simplify", BOOLEAN),
        flatten \in OptionalKeyword("flatten", {TRUE})}

InitConfig ==
    /\ types = <<>>
    /\ elements = <<>>
    /\ attr_style = "properties"
    /\ target_namespace = ""
    /\ json_schemas = <<>>
    /\ particle = None
    /\ properties = EmptyDict
    /\ required_elements = <<>>
    /\ pc = "call"
    /\ arguments \in CliArguments
    /\ returned = None
    /\ NoRun

\* config = Config.from_cli_args(**arguments)
FromCliArgs ==
    /\ pc = "call"
    /\ returned' = from_cli_args(arguments)
    /\ pc' = "returned"
    /\ UNCHANGED <<types, elements, attr_style, target_namespace, json_schemas,
                   particle, properties, required_elements, arguments, run_vars>>

NextConfig == FromCliArgs

SpecConfig == InitConfig /\ [][NextConfig]_vars

\* C25: Config.from_cli_args(pretty=False) yields a configuration whose
\* serializer.pretty is False, and pretty=True yields one whose
\* serializer.pretty is True.
C25_PrettyHonoured ==
    (pc = "returned" /\ "pretty" \in DOMAIN arguments) =>
        returned.serializer.pretty = arguments["pretty"]

\* ---------------------------------------------------------------------------
\* Repeated calls of the type mapper and the particle resolver on one schema
\* object model.

\* The most calls made on one model.
MaxCalls == 3

\* The types of the mapped schema: a documented base type with a content
\* model and an attribute, an extension of it, a restriction of the extension,
\* and an enumeration.
MappedSchemaTypes ==
    << add_documentation(
         add_attribute(
           [ComplexType("BaseType") EXCEPT
               !.particle = add_particle(ModelGroup("Sequence"), <<>>,
                               Element("version", None, ElementOccurrence(1, 1), <<>>))],
           Attribute("version", "required", None)),
         "A documented type"),
       add_attribute(
         [ComplexType("MidType") EXCEPT
             !.base_type = "BaseType", !.derivation_method = "extension",
             !.particle = add_particle(
                            add_particle(ModelGroup("Choice"), <<>>, ModelGroup("Sequence")),
                            <<1>>, Element("name", PersonType, ElementOccurrence(0, 3), <<>>))],
         Attribute("priority", "required", IntType)),
       [ComplexType("ExtendedType") EXCEPT
           !.base_type = "MidType", !.derivation_method = "restriction"],
       add_facet(
         add_facet([SimpleType("ColorType") EXCEPT !.primitive_type = "string"],
                   "enumeration", ListValue(<<"red", "green", "blue">>)),
         "maxLength", Scalar("10")) >>

\* The model as the parser leaves it; returned is the log of the calls made.
InitMapping ==
    /\ types \in {SubSeq(MappedSchemaTypes, 1, n) : n \in 1..Len(MappedSchemaTypes)}
    /\ elements = <<>>
    /\ attr_style \in AttributeStyles
    /\ target_namespace \in Namespaces
    /\ json_schemas = <<>>
    /\ particle = None
    /\ properties = EmptyDict
    /\ required_elements = <<>>
    /\ pc = "model"
    /\ arguments = None
    /\ returned = <<>>
    /\ NoRun

\* self._create_json_schema_for_type(xsd_type, namespace) on the i-th type.
MapType(i) ==
    /\ pc = "model"
    /\ Len(returned) < MaxCalls
    /\ returned' = Append(returned,
                      [call |-> "mapType", type |-> types[i],
                       namespace |-> Namespace(target_namespace),
                       style |-> attr_style,
                       result |-> CreateJsonSchemaForType(
                                     types[i], Namespace(target_namespace),
                                     attr_style, types)])
    /\ UNCHANGED <<types, elements, attr_style, target_namespace, json_schemas,
                   particle, properties, required_elements, pc, arguments,
                   run_vars>>

\* self._extract_properties_from_particle(xsd_type.particle) on the i-th type.
ResolveType(i) ==
    /\ pc = "model"
    /\ Len(returned) < MaxCalls
    /\ "particle" \in DOMAIN types[i]
    /\ returned' = Append(returned,
                      [call |-> "resolve", type |-> types[i],
                       namespace |-> Namespace(target_namespace),
                       style |-> attr_style,
                       result |-> ExtractPropertiesFromParticle(types[i].particle)])
    /\ UNCHANGED <<types, elements, attr_style, target_namespace, json_schemas,
                   particle, properties, required_elements, pc, arguments,
                   run_vars>>

\* config.attr_style = style, between two calls.
SetAttrStyle(style) ==
    /\ pc = "model"
    /\ style # attr_style
    /\ attr_style' = style
    /\ UNCHANGED <<types, elements, target_namespace, json_schemas,
                   particle, properties, required_elements, pc, call_vars,
                   run_vars>>

NextMapping ==
    \/ \E i \in DOMAIN types : MapType(i)
    \/ \E i \in DOMAIN types : ResolveType(i)
    \/ \E style \in AttributeStyles : SetAttrStyle(style)

SpecMapping == InitMapping /\ [][NextMapping]_vars

\* Two calls with the same type, namespace and attribute style gave equal
\* results.
C26_EqualFragments ==
    pc = "model" =>
        \A a, b \in DOMAIN returned :
            (/\ returned[a].call = returned[b].call
             /\ returned[a].type = returned[b].type
             /\ returned[a].namespace = returned[b].namespace
             /\ returned[a].style = returned[b].style)
               => returned[a].result = returned[b].result

\* A call leaves the schema object model as it was: the types with their
\* particles, attributes, facet lists and annotations, and the elements.
C26_ModelUnchanged ==
    Len(returned') > Len(returned) =>
        /\ types' = types
        /\ elements' = elements
        /\ target_namespace' = target_namespace
        /\ returned'[Len(returned')].type = types[CHOOSE i \in DOMAIN types :
                                                 types[i].name = returned'[Len(returned')].type.name]

MaxTypeElements == 2

\* The interpreter's recursion limit, counted in nested type conversions.
MaxDepth == 3

\* The names of the named types of an input schema.
ParsedTypeNames == <<"Node", "Item">>

\* The content models: the type names of the element declarations.
ElementTypesUpTo(names, n) ==
    UNION {[1..k -> names] : k \in 0..n}

\* The input schemas, as the schema library hands them over: one or two named
\* complex types, each with its base type (none, or another named type,
\* derivation being acyclic) and the types of its elements.
ParsedSchemas ==
    LET names(n) == {ParsedTypeNames[i] : i \in 1..n}
    IN  {[i \in 1..n |-> [name |-> ParsedTypeNames[i],
                           base_type |-> bases[i],
                           elements |-> contents[i]]] :
            n \in 1..Len(ParsedTypeNames),
            bases \in [1..Len(ParsedTypeNames) -> {""} \cup Range(ParsedTypeNames)],
            contents \in [1..Len(ParsedTypeNames) ->
                            ElementTypesUpTo(Range(ParsedTypeNames), MaxTypeElements)]}

\* A schema of the input: every name it refers to is declared, no type is
\* its own base and no two types are each other's base.
WellFormed(xsd_types) ==
    /\ \A i \in DOMAIN xsd_types :
          /\ xsd_types[i].base_type \in ({""} \cup {xsd_types[k].name : k \in DOMAIN xsd_types})
                                          \ {xsd_types[i].name}
          /\ \A k \in DOMAIN xsd_types[i].elements :
                \E j \in DOMAIN xsd_types : xsd_types[j].name = xsd_types[i].elements[k]
    /\ ~ \A i \in DOMAIN xsd_types : xsd_types[i].base_type # ""

\* The references a type conversion follows, in the order of
\* _convert_complex_type: the base type, then the elements of the content.
References(xsd_type) ==
    (IF xsd_type.base_type # ""
     THEN <<[kind |-> "base", type |-> xsd_type.base_type]>> ELSE <<>>)
    \o [k \in DOMAIN xsd_type.elements |->
           [kind |-> "element", type |-> xsd_type.elements[k]]]

\* ComplexType(name, qname) as the parser fills it: base_type and the types
\* of the elements of its particle are object identities.
ParsedType(name) == [name |-> name, base_type |-> 0, element_types |-> <<>>]

\* complex_type.base_type = base_type / element.type = element_type
SetReference(object, kind, target) ==
    IF kind = "base" THEN [object EXCEPT !.base_type = target]
    ELSE [object EXCEPT !.element_types = Append(@, target)]

\* The position in the input of the type of that name.
XsdTypeNamed(name) == CHOOSE i \in DOMAIN source : source[i].name = name

\* The conversion in progress and the reference it is at.
Frame == arguments[Len(arguments)]

AtReference ==
    /\ pc = "parse"
    /\ arguments # <<>>
    /\ Frame.position <= Len(References(source[Frame.xsd_type]))

Reference == References(source[Frame.xsd_type])[Frame.position]

\* XSDParser() and Schema(): an empty cache and no types.  `conversions`
\* counts the calls of _convert_complex_type per type name.
InitParse ==
    /\ types = <<>>
    /\ elements = <<>>
    /\ attr_style = "properties"
    /\ target_namespace = ""
    /\ json_schemas = <<>>
    /\ particle = None
    /\ properties = EmptyDict
    /\ required_elements = <<>>
    /\ pc = "parse"
    /\ arguments = <<>>
    /\ returned = [heap |-> <<>>, type_cache |-> EmptyDict, schema_types |-> EmptyDict,
                   conversions |-> EmptyDict, next |-> 1]
    /\ output_mode = "single"
    /\ files = EmptyDict
    /\ output_files = <<>>
    /\ source \in {xsd_types \in ParsedSchemas : WellFormed(xsd_types)}
    /\ faults = {}
    /\ llm_optimized = FALSE
    /\ success = FALSE
    /\ errors = <<>>

\* The parser state after _convert_complex_type(xsd_type) has been entered
\* for the type at position i: a new ComplexType object.
Entered(i, via) ==
    /\ arguments' = Append(arguments,
                        [xsd_type |-> i, object |-> Len(returned.heap) + 1,
                         position |-> 1, via |-> via])
    /\ returned' = [returned EXCEPT
                       !.heap = Append(@, ParsedType(source[i].name)),
                       !.conversions = SetItem(@, source[i].name,
                                               Get(@, source[i].name, 0) + 1)]

\* _convert_types: the loop calls _convert_complex_type for the next type of
\* the schema, without looking into the cache.
ConvertTopLevel ==
    /\ pc = "parse"
    /\ arguments = <<>>
    /\ returned.next <= Len(source)
    /\ Entered(returned.next, "top")
    /\ UNCHANGED <<types, elements, attr_style, target_namespace, json_schemas,
                   particle, properties, required_elements, pc, run_vars>>

\* _get_or_create_type_reference: the name is in the cache.
FromCache ==
    /\ AtReference
    /\ Reference.type \in DOMAIN returned.type_cache
    /\ returned' = [returned EXCEPT
                       !.heap[Frame.object] =
                           SetReference(@, Reference.kind,
                                        returned.type_cache[Reference.type])]
    /\ arguments' = [arguments EXCEPT ![Len(arguments)].position = @ + 1]
    /\ UNCHANGED <<types, elements, attr_style, target_namespace, json_schemas,
                   particle, properties, required_elements, pc, run_vars>>

\* _get_or_create_type_reference: the name is not in the cache, the type is
\* converted.
ConvertReferenced ==
    /\ AtReference
    /\ Reference.type \notin DOMAIN returned.type_cache
    /\ Len(arguments) < MaxDepth
    /\ Entered(XsdTypeNamed(Reference.type), Reference.kind)
    /\ UNCHANGED <<types, elements, attr_style, target_namespace, json_schemas,
                   particle, properties, required_elements, pc, run_vars>>

\* The nested conversion exceeds the recursion limit.  The RecursionError is
\* caught by the handler that is innermost where it is raised: the nested
\* _convert_complex_type returns None and the reference stays None, or
\* _convert_element / _convert_particle returns None and the element is
\* dropped.
RecursionLimit(dropped) ==
    /\ AtReference
    /\ Reference.type \notin DOMAIN returned.type_cache
    /\ Len(arguments) = MaxDepth
    /\ dropped => Reference.kind = "element"
    /\ returned' = [returned EXCEPT
                       !.heap[Frame.object] =
                           IF dropped THEN @ ELSE SetReference(@, Reference.kind, 0)]
    /\ arguments' = [arguments EXCEPT ![Len(arguments)].position = @ + 1]
    /\ UNCHANGED <<types, elements, attr_style, target_namespace, json_schemas,
                   particle, properties, required_elements, pc, run_vars>>

\* A conversion returns its object.  In _get_or_create_type_reference the
\* object is cached and handed to the referring type; in _convert_types it is
\* added to the schema and cached.
FinishConversion ==
    /\ pc = "parse"
    /\ arguments # <<>>
    /\ Frame.position > Len(References(source[Frame.xsd_type]))
    /\ arguments' =
          IF Frame.via = "top" THEN <<>>
          ELSE [SubSeq(arguments, 1, Len(arguments) - 1) EXCEPT
                   ![Len(arguments) - 1].position = @ + 1]
    /\ returned' =
          IF Frame.via = "top"
          THEN [returned EXCEPT
                   !.schema_types = SetItem(@, source[Frame.xsd_type].name, Frame.object),
                   !.type_cache = SetItem(@, source[Frame.xsd_type].name, Frame.object),
                   !.next = @ + 1]
          ELSE [returned EXCEPT
                   !.type_cache = SetItem(@, source[Frame.xsd_type].name, Frame.object),
                   !.heap[arguments[Len(arguments) - 1].object] =
                       SetReference(@, Frame.via, Frame.object)]
    /\ UNCHANGED <<types, elements, attr_style, target_namespace, json_schemas,
                   particle, properties, required_elements, pc, run_vars>>

\* The loop of _convert_types has passed the last type.
FinishParse ==
    /\ pc = "parse"
    /\ arguments = <<>>
    /\ returned.next > Len(source)
    /\ pc' = "parsed"
    /\ UNCHANGED <<types, elements, attr_style, target_namespace, json_schemas,
                   particle, properties, required_elements, call_vars, run_vars>>

NextParse ==
    \/ ConvertTopLevel
    \/ FromCache
    \/ ConvertReferenced
    \/ \E dropped \in BOOLEAN : RecursionLimit(dropped)
    \/ FinishConversion
    \/ FinishParse

SpecParse == InitParse /\ [][NextParse]_vars

\* The objects the types of the schema refer to: base types and element
\* types, None left out.
C27_Referenced(object) ==
    ({object.base_type} \cup Range(object.element_types)) \ {0}

\* C27: during object-model construction each named type is converted at
\* most once: every later request for its name, as an element's type, a base
\* type or in the top-level pass, returns the very same Type object, and that
\* object is the one registered in schema.types under that name.
C27_ConvertedOnce ==
    pc = "parsed" =>
        /\ \A name \in DOMAIN returned.conversions : returned.conversions[name] <= 1
        /\ \A name \in DOMAIN returned.schema_types :
              \A target \in C27_Referenced(returned.heap[returned.schema_types[name]]) :
                 target = returned.schema_types[returned.heap[target].name]

\* Some type of the schema contains, directly or through other types, an
\* element of that same type.
C30_Recursive ==
    \E i \in DOMAIN source :
       \/ source[i].name \in Range(source[i].elements)
       \/ \E j \in DOMAIN source :
             /\ source[j].name \in Range(source[i].elements)
             /\ source[i].name \in Range(source[j].elements)

\* C30: object-model construction on a schema with a recursive type answers
\* the recursive reference from the type cache instead of converting the type
\* again, so the depth of nested conversions is bounded by the number of named
\* types; construction terminates.
C30_BoundedDepth ==
    C30_Recursive =>
        /\ Len(arguments) <= Len(source)
        /\ \A name \in DOMAIN returned.conversions : returned.conversions[name] <= 1

\* ---------------------------------------------------------------------------
\* Output of schemas whose types refer to other types.

\* The types of the schema: a type with an element of a built-in type and an
\* element of its own type, an extension of it with an element of the base
\* type, and a simple type.
ReferencingTypes ==
    << [ComplexType("PersonType") EXCEPT
           !.particle =
               add_particle(
                   add_particle(ModelGroup("Sequence"), <<>>,
                                Element("name", StringType, ElementOccurrence(1, 1), <<>>)),
                   <<>>, Element("friend", PersonType, ElementOccurrence(0, Unbounded), <<>>))],
       [ComplexType("EmployeeType") EXCEPT
           !.base_type = "PersonType", !.derivation_method = "extension",
           !.particle = add_particle(ModelGroup("Sequence"), <<>>,
                            Element("manager", PersonType, ElementOccurrence(0, 1), <<>>))],
       [SimpleType("Address") EXCEPT !.primitive_type = "string"] >>

\* The schema object model as the parser leaves it: the first n types, with
\* or without a top-level element.
InitReferences ==
    /\ types \in {SubSeq(ReferencingTypes, 1, n) : n \in 0..Len(ReferencingTypes)}
    /\ elements \in {<<>>} \cup {<<element>> : element \in TopLevelElements}
    /\ attr_style \in AttributeStyles
    /\ target_namespace \in Namespaces
    /\ json_schemas = <<>>
    /\ particle = None
    /\ properties = EmptyDict
    /\ required_elements = <<>>
    /\ pc = "model"
    /\ NoCall
    /\ output_mode \in OutputModes
    /\ files = EmptyDict
    /\ output_files = <<>>
    /\ source = <<>>
    /\ faults = {}
    /\ llm_optimized = FALSE
    /\ success = FALSE
    /\ errors = <<>>

NextReferences ==
    \/ Transform
    \/ WriteOutput

SpecReferences == InitReferences /\ [][NextReferences]_vars

\* The $ref values of the element fragments of a properties map, array
\* items included.
C28_PropertyRefs(props) ==
    {props[k]["$ref"] : k \in {n \in DOMAIN props : "$ref" \in DOMAIN props[n]}}
    \cup {props[k].items["$ref"] :
             k \in {n \in DOMAIN props :
                       /\ "items" \in DOMAIN props[n]
                       /\ "$ref" \in DOMAIN props[n].items}}

\* The $ref values of a fragment: those of its properties, the base of an
\* extension, and the properties of the extension.
C28_FragmentRefs(fragment) ==
    C28_PropertyRefs(Get(fragment, "properties", EmptyDict))
    \cup (IF "allOf" \in DOMAIN fragment
          THEN {fragment.allOf[1]["$ref"]} \cup C28_PropertyRefs(fragment.allOf[2].properties)
          ELSE {})

\* The internal references of a document: "#/definitions/<N>".
C28_InternalRefs(document) ==
    {ref \in C28_FragmentRefs(document)
              \cup UNION {C28_FragmentRefs(document.definitions[n]) :
                             n \in DOMAIN Get(document, "definitions", EmptyDict)} :
        Len(ref) > 14 /\ SubSeq(ref, 1, 14) = "#/definitions/"}

\* C28: in every emitted document each internal reference
\* "#/definitions/<N>" points to an existing entry definitions[N] of that same
\* document: in the consolidated single-file document, in a single fragment
\* emitted verbatim, and in each per-type file of multi-file mode.
C28_Resolvable ==
    pc = "written" =>
        \A f \in DOMAIN files \ {"README.md"} :
            \A ref \in C28_InternalRefs(files[f]) :
                SubSeq(ref, 15, Len(ref)) \in DOMAIN Get(files[f], "definitions", EmptyDict)

\* ---------------------------------------------------------------------------
\* The required list of the particle resolver, checked under SpecResolve.

\* C29: for every particle, the required list returned by the resolver is a
\* duplicate-free list of keys of the returned properties map, also when the
\* same element name occurs in several sibling or nested groups.
C29_RequiredUnique ==
    pc = "resolved" =>
        /\ Range(required_elements) \subseteq DOMAIN properties
        /\ \A i, j \in DOMAIN required_elements :
              required_elements[i] = required_elements[j] => i = j

====
